---------------------------- MODULE Spec2Model ----------------------------
(***************************************************************************)
(* Keystroke-dynamics authentication (magnum-opus): the timing extractor,  *)
(* the profile builder, the match scorer, the login decision flow, the     *)
(* registration flow and the keystroke capture component, modelled from    *)
(* services/biometrics.ts, components/LoginFlow.tsx, components/           *)
(* RegistrationFlow.tsx and components/KeystrokeInput.tsx.                 *)
(*                                                                         *)
(* Times are integer milliseconds.  Real-valued scores are exact rationals *)
(* [n, d] (d > 0, lowest terms), so that threshold comparisons such as     *)
(* distance < 0.55 are decided exactly.                                    *)
(***************************************************************************)
EXTENDS Integers, Sequences, FiniteSets, TLC

VARIABLES
    \* ---- LoginFlow.tsx component state
    stage, selectedUser, result, mantraMatch, mantraTimings, users,
    \* ---- history: the user of the session that resetFlow ended last, while
    \*      another user's session follows
    lastUser,
    \* ---- driver of the pure function extractTimings
    exIn, exOut, exFirst, exPc,
    \* ---- KeystrokeInput.tsx component state and its environment
    inputText, errors, keystrokesRef, pendingKeyDown, completedRef,
    timerPending, delivered, held, domInput, selected, now,
    \* ---- RegistrationFlow.tsx component state and the user store
    step, mantraAttempts, mantraProfile, answerAttempts, regError, savedUsers,
    pendingSaves,
    \* ---- driver of the pure function buildProfile
    bpAttempts, bpPermuted, bpOut, bpOutPermuted, bpPc,
    \* ---- driver of the pure functions calculateProfileQuality and scaledManhattan
    fnStats, fnNoisier, fnAttempt, fnOut, fnPc,
    \* ---- driver of the pure function calculateMatch
    mtProfile, mtTimings, mtOther, mtOut, mtOutOther, mtCalls,
    \* ---- storage.ts and the server: the two user stores and two client sessions
    serverDb, localUsers, sessions, apiCall,
    \* ---- constants.ts: the module-level object FEATURE_WEIGHTS
    featureWeights

loginVars == <<stage, selectedUser, result, mantraMatch, mantraTimings, users, lastUser>>
extractVars == <<exIn, exOut, exFirst, exPc>>
captureVars == <<inputText, errors, keystrokesRef, pendingKeyDown, completedRef,
                 timerPending, delivered, held, domInput, selected, now>>
regVars == <<step, mantraAttempts, mantraProfile, answerAttempts, regError, savedUsers,
             pendingSaves>>
buildVars == <<bpAttempts, bpPermuted, bpOut, bpOutPermuted, bpPc>>
fnVars == <<fnStats, fnNoisier, fnAttempt, fnOut, fnPc>>
matchVars == <<mtProfile, mtTimings, mtOther, mtOut, mtOutOther, mtCalls>>
storeVars == <<serverDb, localUsers, sessions, apiCall>>
moduleVars == <<featureWeights>>
vars == <<loginVars, extractVars, captureVars, regVars, buildVars, fnVars,
          matchVars, storeVars, moduleVars>>

Null == [isNull |-> TRUE]

(***************************************************************************)
(* Generic helpers                                                         *)
(***************************************************************************)
MinInt(a, b) == IF a < b THEN a ELSE b
MaxInt(a, b) == IF a > b THEN a ELSE b
AbsInt(a) == IF a < 0 THEN -a ELSE a

RECURSIVE GCD(_, _)
GCD(a, b) == IF b = 0 THEN a ELSE GCD(b, a % b)

\* Exact rationals standing for the program's floating-point numbers.  A
\* denominator of 0 holds the three values that are no rational: NaN (0/0),
\* Infinity (1/0) and -Infinity (-1/0); the operations treat them as
\* JavaScript's do.  An absent array element (undefined) is read by the
\* program only through (x || dflt), where it behaves as NaN does.
NaN == [n |-> 0, d |-> 0]
Infinity == [n |-> 1, d |-> 0]
Sign(x) == IF x < 0 THEN -1 ELSE IF x > 0 THEN 1 ELSE 0
Rat(n, d) ==
    IF d = 0 THEN [n |-> Sign(n), d |-> 0]
    ELSE LET s == IF d < 0 THEN -1 ELSE 1
             g == GCD(AbsInt(n), AbsInt(d))
         IN  [n |-> (s * n) \div g, d |-> (s * d) \div g]
RI(x) == [n |-> x, d |-> 1]
isFinite(a) == a.d # 0
isNaN(a) == a.d = 0 /\ a.n = 0
RNeg(a) == [n |-> -a.n, d |-> a.d]
RAdd(a, b) ==
    IF isFinite(a) /\ isFinite(b) THEN Rat(a.n * b.d + b.n * a.d, a.d * b.d)
    ELSE IF isNaN(a) \/ isNaN(b) THEN NaN
    ELSE IF isFinite(a) THEN b
    ELSE IF isFinite(b) THEN a
    ELSE IF a = b THEN a ELSE NaN
RSub(a, b) ==
    IF isFinite(a) /\ isFinite(b) THEN Rat(a.n * b.d - b.n * a.d, a.d * b.d)
    ELSE RAdd(a, RNeg(b))
RMul(a, b) ==
    IF isFinite(a) /\ isFinite(b) THEN Rat(a.n * b.n, a.d * b.d)
    ELSE Rat(Sign(a.n) * Sign(b.n), 0)
RDiv(a, b) ==
    IF isFinite(a) /\ isFinite(b) THEN Rat(a.n * b.d, a.d * b.n)
    ELSE IF isNaN(a) \/ isNaN(b) THEN NaN
    ELSE IF isFinite(a) THEN RI(0)
    ELSE IF isFinite(b) THEN Rat(a.n * (IF b.n < 0 THEN -1 ELSE 1), 0)
    ELSE NaN
RAbs(a) == [n |-> AbsInt(a.n), d |-> a.d]
RLt(a, b) ==
    IF isNaN(a) \/ isNaN(b) THEN FALSE
    ELSE IF ~isFinite(a) /\ ~isFinite(b) THEN a.n < b.n
    ELSE a.n * b.d < b.n * a.d
RLe(a, b) ==
    IF isNaN(a) \/ isNaN(b) THEN FALSE
    ELSE IF ~isFinite(a) /\ ~isFinite(b) THEN a.n <= b.n
    ELSE a.n * b.d <= b.n * a.d
\* Math.min and Math.max: NaN when an argument is NaN.
RMin(a, b) == IF isNaN(a) \/ isNaN(b) THEN NaN ELSE IF RLt(b, a) THEN b ELSE a
RMax(a, b) == IF isNaN(a) \/ isNaN(b) THEN NaN ELSE IF RLt(a, b) THEN b ELSE a
\* Math.round of a finite number: the nearest integer, halves rounded up.
RRound(a) == (2 * a.n + a.d) \div (2 * a.d)

\* Body applied to value, with value evaluated once (a local constant of the
\* program that is read many times).
With(value, Body(_)) == CHOOSE r \in {Body(x) : x \in {value}} : TRUE

\* Integer milliseconds as the program's numbers.
Ints(s) == [i \in 1..Len(s) |-> RI(s[i])]
Numbers(timings) ==
    [dwellTimes  |-> Ints(timings.dwellTimes),
     flightTimes |-> Ints(timings.flightTimes),
     ddLatencies |-> Ints(timings.ddLatencies)]

RECURSIVE RSum(_)
RSum(s) == IF s = <<>> THEN RI(0) ELSE RAdd(Head(s), RSum(Tail(s)))

(***************************************************************************)
(* constants.ts                                                            *)
(***************************************************************************)
MinDwell == 10
MaxDwell == 1000
MinFlight == -200
MaxFlight == 2000
TIMING_CLAMPS == [minDwell |-> MinDwell, maxDwell |-> MaxDwell,
                  minFlight |-> MinFlight, maxFlight |-> MaxFlight]

(***************************************************************************)
(* biometrics.ts: clamp and extractTimings                                 *)
(***************************************************************************)
\* A plausible slip: the upper bound is never applied.
clampNoUpper(value, min, max) == MaxInt(min, value)

clamp(value, min, max) == MaxInt(min, MinInt(max, value))

EmptyTimings == [dwellTimes |-> <<>>, flightTimes |-> <<>>, ddLatencies |-> <<>>,
                 totalTime |-> 0, chars |-> <<>>]

\* A plausible slip: the flight time measured from the previous key's press.
flightOfFromPress(ks, prev) ==
    clamp(ks.keyDownTime - prev.keyDownTime,
          TIMING_CLAMPS.minFlight, TIMING_CLAMPS.maxFlight)

dwellOf(ks) ==
    clamp(ks.keyUpTime - ks.keyDownTime, TIMING_CLAMPS.minDwell, TIMING_CLAMPS.maxDwell)
flightOf(ks, prev) ==
    clamp(ks.keyDownTime - prev.keyUpTime,
          TIMING_CLAMPS.minFlight, TIMING_CLAMPS.maxFlight)
ddOf(ks, prev) ==
    clamp(ks.keyDownTime - prev.keyDownTime,
          TIMING_CLAMPS.minDwell, TIMING_CLAMPS.maxFlight + TIMING_CLAMPS.maxDwell)

\* The loop of extractTimings over keystrokes[0 .. n-1] (1-based here).
extractLoop(keystrokes, n) ==
    [dwellTimes  |-> [i \in 1..n |-> dwellOf(keystrokes[i])],
     flightTimes |-> [i \in 1..(n - 1) |-> flightOf(keystrokes[i + 1], keystrokes[i])],
     ddLatencies |-> [i \in 1..(n - 1) |-> ddOf(keystrokes[i + 1], keystrokes[i])],
     totalTime   |-> keystrokes[Len(keystrokes)].keyUpTime - keystrokes[1].keyDownTime,
     chars       |-> [i \in 1..n |-> keystrokes[i].char]]

\* A plausible slip: the loop bound is off by one (i < n - 1).
extractTimingsOffByOne(keystrokes) ==
    IF Len(keystrokes) = 0 THEN EmptyTimings
    ELSE extractLoop(keystrokes, Len(keystrokes) - 1)

extractTimings(keystrokes) ==
    IF Len(keystrokes) = 0 THEN EmptyTimings
    ELSE extractLoop(keystrokes, Len(keystrokes))

(***************************************************************************)
(* constants.ts: matching thresholds and weights                           *)
(***************************************************************************)
THRESHOLD_ACCEPT == Rat(55, 100)
THRESHOLD_REJECT == Rat(11, 10)
CHALLENGE_THRESHOLD == Rat(9, 10)
MIN_CONFIDENCE_ACCEPT == 55
MIN_CONFIDENCE_CHALLENGE == 35
\* FEATURE_WEIGHTS is one module-level object, created from the literal below;
\* it is not frozen, so its fields can be assigned through any reference to it.
FeatureWeightsLiteral == [dwell |-> Rat(30, 100), flight |-> Rat(50, 100), dd |-> Rat(20, 100)]
FEATURE_WEIGHTS == featureWeights
ModuleInit == featureWeights = FeatureWeightsLiteral
CHALLENGE_WEIGHTS == [mantra |-> Rat(55, 100), answer |-> Rat(45, 100)]

(***************************************************************************)
(* biometrics.ts: scaledManhattan, calculateMatch, distanceToConfidence    *)
(***************************************************************************)
MIN_MAD == 40
SentinelScore == 10
PenaltyCap == 3

\* JavaScript's (x || dflt) on a number: 0 is falsy.
OrElse(x, dflt) == IF x.n = 0 THEN dflt ELSE x

\* A slip: a deviation above the cap is dropped as an outlier, not capped.
penaltyDropsOutlier(attempt, mean, profileMad) ==
    LET mad   == RMax(OrElse(profileMad, RI(MIN_MAD)), RI(MIN_MAD))
        diff  == RAbs(RSub(OrElse(attempt, RI(0)), OrElse(mean, RI(0))))
        ratio == RDiv(diff, mad)
    IN  IF RLt(RI(PenaltyCap), ratio) THEN RI(0) ELSE ratio

\* A slip: the deviation is taken from the MAD, the arguments mixed up.
penaltyFromMad(attempt, mean, profileMad) ==
    LET mad  == RMax(OrElse(profileMad, RI(MIN_MAD)), RI(MIN_MAD))
        diff == RAbs(RSub(OrElse(attempt, RI(0)), mad))
    IN  RMin(RDiv(diff, mad), RI(PenaltyCap))

\* A slip: the cap of 3.0 on one position's penalty is forgotten.
penaltyUncapped(attempt, mean, profileMad) ==
    LET mad  == RMax(OrElse(profileMad, RI(MIN_MAD)), RI(MIN_MAD))
        diff == RAbs(RSub(OrElse(attempt, RI(0)), OrElse(mean, RI(0))))
    IN  RDiv(diff, mad)

\* One pass of the loop body of scaledManhattan.
penalty(attempt, mean, profileMad) ==
    LET mad  == RMax(OrElse(profileMad, RI(MIN_MAD)), RI(MIN_MAD))
        diff == RAbs(RSub(OrElse(attempt, RI(0)), OrElse(mean, RI(0))))
    IN  RMin(RDiv(diff, mad), RI(PenaltyCap))

\* A plausible slip: no data scores as a perfect match.
scaledManhattanEmptyZero(attemptValues, profileMean, profileMAD) ==
    LET len == MinInt(Len(attemptValues), MinInt(Len(profileMean), Len(profileMAD)))
    IN  IF len = 0 THEN RI(0)
        ELSE RDiv(RSum([i \in 1..len |->
                          penalty(attemptValues[i], profileMean[i], profileMAD[i])]),
                  RI(len))

\* A slip: a feature with no position scores as the cap of one position.
scaledManhattanEmptyCapped(attemptValues, profileMean, profileMAD) ==
    LET len == MinInt(Len(attemptValues), MinInt(Len(profileMean), Len(profileMAD)))
    IN  IF len = 0 THEN RI(PenaltyCap)
        ELSE RDiv(RSum([i \in 1..len |->
                          penalty(attemptValues[i], profileMean[i], profileMAD[i])]),
                  RI(len))

scaledManhattan(attemptValues, profileMean, profileMAD) ==
    LET len == MinInt(Len(attemptValues), MinInt(Len(profileMean), Len(profileMAD)))
    IN  IF len = 0 THEN RI(SentinelScore)
        ELSE RDiv(RSum([i \in 1..len |->
                          penalty(attemptValues[i], profileMean[i], profileMAD[i])]),
                  RI(len))

\* calculateMatch's own confidence: (1 - distance / 2.5) * 100 clamped to
\* [0, 100] and rounded to one decimal.
\* A slip: the conversion is not clamped to [0, 100].
matchConfidenceUnclamped(distance) ==
    LET raw == RMul(RSub(RI(1), RDiv(distance, Rat(25, 10))), RI(100))
    IN  IF isFinite(raw) THEN Rat(RRound(RMul(raw, RI(10))), 10) ELSE raw

\* A slip: the distance is scaled by THRESHOLD_REJECT in place of 2.5.
matchConfidenceSteep(distance) ==
    LET raw == RMul(RSub(RI(1), RDiv(distance, THRESHOLD_REJECT)), RI(100))
        c   == RMax(RI(0), RMin(RI(100), raw))
    IN  IF isFinite(c) THEN Rat(RRound(RMul(c, RI(10))), 10) ELSE c

matchConfidence(distance) ==
    LET raw == RMul(RSub(RI(1), RDiv(distance, Rat(25, 10))), RI(100))
        c   == RMax(RI(0), RMin(RI(100), raw))
    IN  IF isFinite(c) THEN Rat(RRound(RMul(c, RI(10))), 10) ELSE c

\* A slip: a score that is no finite number is passed on as it is.
safeScoreUnguarded(score) == score

\* safeScores: isFinite(score) ? score : 10.
safeScore(score) == IF isFinite(score) THEN score ELSE RI(10)

\* A slip: the three scores are averaged with equal weights.
calculateMatchUnweighted(timings, profile) ==
    LET dwellScore  == safeScore(scaledManhattan(timings.dwellTimes, profile.dwell.mean, profile.dwell.mad))
        flightScore == safeScore(scaledManhattan(timings.flightTimes, profile.flight.mean, profile.flight.mad))
        ddScore     == safeScore(scaledManhattan(timings.ddLatencies, profile.dd.mean, profile.dd.mad))
        distance    == RDiv(RAdd(RAdd(dwellScore, flightScore), ddScore), RI(3))
    IN  [distance    |-> distance,
         confidence  |-> matchConfidence(distance),
         dwellScore  |-> dwellScore,
         flightScore |-> flightScore,
         ddScore     |-> ddScore,
         weights     |-> FEATURE_WEIGHTS]

\* The timing series are sequences of numbers.  The returned object has the
\* six fields below and no other.
calculateMatch(timings, profile) ==
    LET dwellScore  == safeScore(scaledManhattan(timings.dwellTimes, profile.dwell.mean, profile.dwell.mad))
        flightScore == safeScore(scaledManhattan(timings.flightTimes, profile.flight.mean, profile.flight.mad))
        ddScore     == safeScore(scaledManhattan(timings.ddLatencies, profile.dd.mean, profile.dd.mad))
        distance    == RAdd(RAdd(RMul(dwellScore, FEATURE_WEIGHTS.dwell),
                                 RMul(flightScore, FEATURE_WEIGHTS.flight)),
                            RMul(ddScore, FEATURE_WEIGHTS.dd))
    IN  [distance    |-> distance,
         confidence  |-> matchConfidence(distance),
         dwellScore  |-> dwellScore,
         flightScore |-> flightScore,
         ddScore     |-> ddScore,
         weights     |-> FEATURE_WEIGHTS]

\* Math.round(100 * exp(-0.7 * d)) >= k exactly when d <= ln(100 / (k - 0.5)) / 0.7;
\* ExpThreshold[k] is that bound in units of 1/10000, for k = 1 .. 100.
ExpThreshold ==
    <<75690, 59995, 52698, 47891, 44301, 41434, 39048, 37003, 35215, 33626,
      32197, 30897, 29706, 28606, 27586, 26633, 25740, 24899, 24105, 23353,
      22639, 21958, 21309, 20688, 20092, 19521, 18971, 18442, 17932, 17439,
      16963, 16502, 16056, 15623, 15203, 14794, 14397, 14011, 13635, 13269,
      12912, 12563, 12223, 11891, 11566, 11249, 10938, 10634, 10337, 10045,
      9759, 9479, 9205, 8935, 8670, 8411, 8156, 7905, 7659, 7417,
      7178, 6944, 6714, 6487, 6264, 6044, 5828, 5614, 5404, 5197,
      4993, 4792, 4594, 4398, 4205, 4014, 3826, 3641, 3458, 3277,
      3098, 2922, 2748, 2576, 2405, 2237, 2071, 1907, 1745, 1584,
      1426, 1269, 1113, 960, 808, 657, 508, 361, 215, 71>>

\* distanceToConfidence: Math.round(clamp(Math.exp(-distance * 0.7) * 100, 0, 100)).
distanceToConfidence(distance) ==
    Cardinality({k \in 1..100 : distance.n * 10000 <= ExpThreshold[k] * distance.d})

(***************************************************************************)
(* Driver of extractTimings: a raw keystroke list is drawn, extracted,     *)
(* re-synthesised from the extracted (clamped) vector and extracted again. *)
(***************************************************************************)
MaxRawKeys == 2
RawTimes == {0, 5, 300, 1400, 3700}
RawKeystrokes == [char : {"a"}, code : {"KeyA"}, keyDownTime : RawTimes, keyUpTime : RawTimes]
RawLists == UNION {[1..n -> RawKeystrokes] : n \in 0..MaxRawKeys}

\* Press and release times that reproduce a vector's dwell and flight values:
\* key 1 is pressed at 0, each key is released dwell later and the next one
\* is pressed flight after that release.
RECURSIVE SynthDown(_, _)
SynthDown(t, i) ==
    IF i = 1 THEN 0
    ELSE SynthDown(t, i - 1) + t.dwellTimes[i - 1] + t.flightTimes[i - 1]
Synthesise(t) ==
    [i \in 1..Len(t.dwellTimes) |->
        [char |-> "a", code |-> "KeyA",
         keyDownTime |-> SynthDown(t, i),
         keyUpTime   |-> SynthDown(t, i) + t.dwellTimes[i]]]

ExtractIdle ==
    /\ exIn = <<>> /\ exOut = Null /\ exFirst = Null /\ exPc = "idle"

ExtractInit ==
    /\ exIn \in RawLists
    /\ exOut = Null
    /\ exFirst = Null
    /\ exPc = "raw"

ExtractFirst ==
    /\ exPc = "raw"
    /\ exOut' = extractTimings(exIn)
    /\ exPc' = "extracted"
    /\ UNCHANGED <<exIn, exFirst>>

Resynthesise ==
    /\ exPc = "extracted"
    /\ exFirst' = exOut
    /\ exIn' = Synthesise(exOut)
    /\ exOut' = Null
    /\ exPc' = "synthetic"

ExtractAgain ==
    /\ exPc = "synthetic"
    /\ exOut' = extractTimings(exIn)
    /\ exPc' = "reextracted"
    /\ UNCHANGED <<exIn, exFirst>>

(***************************************************************************)
(* Liveness Detector.  biometrics.ts holds no implementation of it (the    *)
(* MatchResult type declares the liveness field and ResultChart.tsx reads  *)
(* it), so it is modelled from the design's section 4.3.  The score is     *)
(* kept in tenths.  stdDev < t is decided on the squared sums:             *)
(* stdDev^2 = SqDev / n^3 with SqDev = sum (n*v - sum v)^2.                *)
(***************************************************************************)
RECURSIVE IntSum(_)
IntSum(s) == IF s = <<>> THEN 0 ELSE Head(s) + IntSum(Tail(s))

SqDev(values) ==
    LET n == Len(values)
        t == IntSum(values)
    IN  IntSum([i \in 1..n |-> (n * values[i] - t) * (n * values[i] - t)])

\* stdDev(values) < limit, with stdDev = 0 for fewer than 2 values.
StdDevBelow(values, limit) ==
    LET n == Len(values)
    IN  IF n < 2 THEN 0 < limit ELSE SqDev(values) < limit * limit * n * n * n

\* mean > 0 and stdDev / mean < 1/20.
CvSuspicious(values) ==
    LET n == Len(values)
        t == IntSum(values)
    IN  /\ n > 0
        /\ t > 0
        /\ IF n < 2 THEN TRUE ELSE SqDev(values) <= (n * t * t - 1) \div 400

\* Three values in a row whose neighbours differ by less than 5 ms.
Repeating(values) ==
    \E i \in 1..(Len(values) - 2) :
        /\ AbsInt(values[i] - values[i + 1]) < 5
        /\ AbsInt(values[i + 1] - values[i + 2]) < 5

detectLiveness(timings) ==
    LET dw == timings.dwellTimes
        fl == timings.flightTimes
        flags ==
            (IF Len(dw) >= 3 /\ StdDevBelow(dw, 8) THEN {"LOW_DWELL_VARIANCE"} ELSE {})
            \cup (IF CvSuspicious(dw) THEN {"SUSPICIOUS_DWELL_CV"} ELSE {})
            \cup (IF Len(fl) >= 3 /\ StdDevBelow(fl, 15) THEN {"LOW_FLIGHT_VARIANCE"} ELSE {})
            \cup (IF CvSuspicious(fl) THEN {"SUSPICIOUS_FLIGHT_CV"} ELSE {})
            \cup (IF Repeating(dw) THEN {"REPEATING_DWELL_PATTERN"} ELSE {})
            \cup (IF Repeating(fl) THEN {"REPEATING_FLIGHT_PATTERN"} ELSE {})
        cost(f) == IF f \in {"LOW_DWELL_VARIANCE", "LOW_FLIGHT_VARIANCE"} THEN 4
                   ELSE IF f \in {"SUSPICIOUS_DWELL_CV", "SUSPICIOUS_FLIGHT_CV"} THEN 3
                   ELSE 2
        names == <<"LOW_DWELL_VARIANCE", "SUSPICIOUS_DWELL_CV",
                   "LOW_FLIGHT_VARIANCE", "SUSPICIOUS_FLIGHT_CV",
                   "REPEATING_DWELL_PATTERN", "REPEATING_FLIGHT_PATTERN">>
        total == IntSum([i \in 1..Len(names) |->
                            IF names[i] \in flags THEN cost(names[i]) ELSE 0])
        tenths == MaxInt(0, MinInt(10, 10 - total))
    IN  [isHuman |-> tenths >= 5, score |-> Rat(tenths, 10), flags |-> flags]

(***************************************************************************)
(* biometrics.ts: profile building (transpose, removeOutliers,             *)
(* calculateMAD, buildFeatureStats, calculateProfileQuality, buildProfile) *)
(*                                                                         *)
(* A calibration attempt is [timings, isValid]; its timestamp is not read  *)
(* by the builder.  NaN is the rational-shaped record with denominator 0;  *)
(* a cell of the transposed matrix is either a number or undefined.        *)
(***************************************************************************)
OUTLIER_Z_THRESHOLD == Rat(25, 10)
Cell(x) == [defined |-> TRUE, value |-> x]
Undefined == [defined |-> FALSE, value |-> 0]
BuildError == [error |-> "No valid calibration attempts"]

\* The columns are those of the first row; a shorter row leaves undefined.
transpose(matrix) ==
    IF Len(matrix) = 0 THEN <<>>
    ELSE [c \in 1..Len(matrix[1]) |->
             [r \in 1..Len(matrix) |->
                 IF c <= Len(matrix[r]) THEN Cell(matrix[r][c]) ELSE Undefined]]

mean(values) ==
    IF Len(values) = 0 THEN RI(0) ELSE Rat(IntSum(values), Len(values))

\* removeOutliers with a threshold of 2 in place of OUTLIER_Z_THRESHOLD.
removeOutliersAtTwo(values) ==
    LET n == Len(values)
    IN  IF n < 3 THEN values
        ELSE With(IntSum(values), LAMBDA S :
             With(IntSum([i \in 1..n |-> (n * values[i] - S) * (n * values[i] - S)]),
                  LAMBDA sq :
                    IF sq = 0 THEN values
                    ELSE SelectSeq(values,
                                   LAMBDA v : n * (n * v - S) * (n * v - S) < 4 * sq)))

\* |v - m| / s < zThreshold, with m the mean and s the population standard
\* deviation of the n values, squared and cleared of denominators:
\* z^2 = n * (n*v - S)^2 / sum_i (n*v_i - S)^2, S the sum of the values.
removeOutliers(values) ==
    LET n  == Len(values)
        zn == OUTLIER_Z_THRESHOLD.n * OUTLIER_Z_THRESHOLD.n
        zd == OUTLIER_Z_THRESHOLD.d * OUTLIER_Z_THRESHOLD.d
    IN  IF n < 3 THEN values
        ELSE With(IntSum(values), LAMBDA S :
             With(IntSum([i \in 1..n |-> (n * values[i] - S) * (n * values[i] - S)]),
                  LAMBDA sq :
                    IF sq = 0 THEN values
                    ELSE SelectSeq(values,
                                   LAMBDA v : zd * n * (n * v - S) * (n * v - S) < zn * sq)))

calculateMAD(values, meanValue) ==
    IF Len(values) = 0 THEN RI(0)
    ELSE RDiv(RSum([i \in 1..Len(values) |-> RAbs(RSub(RI(values[i]), meanValue))]),
              RI(Len(values)))

RECURSIVE SeqMin(_)
SeqMin(s) == IF Len(s) = 1 THEN s[1] ELSE MinInt(Head(s), SeqMin(Tail(s)))
RECURSIVE SeqMax(_)
SeqMax(s) == IF Len(s) = 1 THEN s[1] ELSE MaxInt(Head(s), SeqMax(Tail(s)))

\* The body of buildFeatureStats's loop for one position.  An undefined
\* cell makes the sum, and with it the mean, the MAD, the minimum and the
\* maximum, NaN (no comparison with NaN is true, so removeOutliers either
\* returns the values or filters all of them out).
positionStats(positionValues) ==
    IF \E r \in 1..Len(positionValues) : ~positionValues[r].defined
    THEN [mean |-> NaN, mad |-> NaN, min |-> NaN, max |-> NaN]
    ELSE With([r \in 1..Len(positionValues) |-> positionValues[r].value], LAMBDA all :
         With(removeOutliers(all), LAMBDA cleaned :
         With(IF Len(cleaned) > 0 THEN cleaned ELSE all, LAMBDA values :
         With(mean(values), LAMBDA m :
              [mean |-> m, mad |-> calculateMAD(values, m),
               min |-> RI(SeqMin(values)), max |-> RI(SeqMax(values))]))))

buildFeatureStats(allValues) ==
    With(transpose(allValues), LAMBDA transposed :
    With([c \in 1..Len(transposed) |-> positionStats(transposed[c])], LAMBDA at :
         [mean |-> [c \in 1..Len(at) |-> at[c].mean],
          mad  |-> [c \in 1..Len(at) |-> at[c].mad],
          min  |-> [c \in 1..Len(at) |-> at[c].min],
          max  |-> [c \in 1..Len(at) |-> at[c].max]]))

\* Math.round(100 * exp(-2 * cv)) >= k exactly when cv <= ln(100 / (k - 0.5)) / 2;
\* QualityThreshold[k] is that bound in units of 1/10000, for k = 1 .. 100.
QualityThreshold ==
    <<26491, 20998, 18444, 16762, 15505, 14502, 13666, 12951, 12325, 11769,
      11268, 10814, 10397, 10012, 9655, 9321, 9009, 8714, 8436, 8173,
      7923, 7685, 7458, 7240, 7032, 6832, 6640, 6454, 6276, 6103,
      5937, 5775, 5619, 5468, 5321, 5178, 5039, 4904, 4772, 4644,
      4519, 4397, 4278, 4162, 4048, 3937, 3828, 3722, 3618, 3515,
      3415, 3317, 3221, 3127, 3034, 2943, 2854, 2766, 2680, 2595,
      2512, 2430, 2350, 2270, 2192, 2115, 2039, 1965, 1891, 1819,
      1747, 1677, 1607, 1539, 1471, 1405, 1339, 1274, 1210, 1147,
      1084, 1022, 961, 901, 842, 783, 725, 667, 610, 554,
      499, 444, 389, 336, 282, 230, 178, 126, 75, 25>>

\* floor(10000 * x) for a rational x >= 0, digit by digit.
RECURSIVE ScaledDigits(_, _, _, _)
ScaledDigits(q, r, d, k) ==
    IF k = 0 THEN q
    ELSE ScaledDigits(10 * q + (10 * r) \div d, (10 * r) % d, d, k - 1)
TenThousandths(x) == ScaledDigits(x.n \div x.d, x.n % x.d, x.d, 4)

\* A slip that reports the inconsistency instead of the consistency.
cvToQualityInverted(avgCV) ==
    With(TenThousandths(avgCV), LAMBDA u :
         100 - clamp(Cardinality({k \in 1..100 : u <= QualityThreshold[k]}), 0, 100))

\* Math.round(clamp(Math.exp(-avgCV * 2) * 100, 0, 100))
cvToQuality(avgCV) ==
    With(TenThousandths(avgCV), LAMBDA u :
         clamp(Cardinality({k \in 1..100 : u <= QualityThreshold[k]}), 0, 100))

\* A slip: a feature without a usable position counts as perfectly consistent.
calculateProfileQualityDefaultFull(stats) ==
    LET valid == {i \in 1..Len(stats.mean) : stats.mean[i].n > 0}
    IN  IF valid = {} THEN 100
        ELSE cvToQuality(RDiv(RSum([i \in 1..Len(stats.mean) |->
                                      IF i \in valid
                                      THEN RDiv(stats.mad[i], stats.mean[i])
                                      ELSE RI(0)]),
                              RI(Cardinality(valid))))

calculateProfileQuality(stats) ==
    LET valid == {i \in 1..Len(stats.mean) : stats.mean[i].n > 0}
        totalCV == RSum([i \in 1..Len(stats.mean) |->
                           IF i \in valid
                           THEN RDiv(stats.mad[i], stats.mean[i])
                           ELSE RI(0)])
    IN  IF valid = {} THEN 0
        ELSE cvToQuality(RDiv(totalCV, RI(Cardinality(valid))))

\* The profile record of buildProfile, from the attempts that count.
profileOf(counted, targetText) ==
    With(buildFeatureStats([i \in 1..Len(counted) |-> counted[i].timings.dwellTimes]),
         LAMBDA dwellStats :
    With(buildFeatureStats([i \in 1..Len(counted) |-> counted[i].timings.flightTimes]),
         LAMBDA flightStats :
    With(buildFeatureStats([i \in 1..Len(counted) |-> counted[i].timings.ddLatencies]),
         LAMBDA ddStats :
         LET dwellQuality  == calculateProfileQuality(dwellStats)
             flightQuality == calculateProfileQuality(flightStats)
             ddQuality     == calculateProfileQuality(ddStats)
             overallQuality ==
                 RRound(RAdd(RAdd(RMul(RI(dwellQuality), FEATURE_WEIGHTS.dwell),
                                  RMul(RI(flightQuality), FEATURE_WEIGHTS.flight)),
                             RMul(RI(ddQuality), FEATURE_WEIGHTS.dd)))
         IN  [dwell |-> dwellStats, flight |-> flightStats, dd |-> ddStats,
              sampleCount |-> Len(counted), quality |-> overallQuality,
              targetText |-> targetText, textLength |-> Len(targetText)])))

\* A slip: the validity filter is forgotten.
buildProfileCountsAll(attempts, targetText) ==
    IF Len(attempts) = 0 THEN BuildError ELSE profileOf(attempts, targetText)

\* The throw is the value BuildError; createdAt (Date.now()) is left out.
buildProfile(attempts, targetText) ==
    With(SelectSeq(attempts, LAMBDA a : a.isValid), LAMBDA validAttempts :
         IF Len(validAttempts) = 0 THEN BuildError
         ELSE profileOf(validAttempts, targetText))

(***************************************************************************)
(* Stored users and typed attempts of the login flow                       *)
(***************************************************************************)
Stats(means, mads) ==
    [mean |-> Ints(means), mad |-> Ints(mads), min |-> Ints(means), max |-> Ints(means)]
Profile(dw, dwMad, fl, flMad, dd, ddMad, text) ==
    [dwell |-> Stats(dw, dwMad), flight |-> Stats(fl, flMad), dd |-> Stats(dd, ddMad),
     sampleCount |-> 5, quality |-> 80, targetText |-> text, textLength |-> Len(text)]

NoUser == "none"
UserIds == {"u1", "u2"}
StoredUsers ==
    [u \in UserIds |->
        IF u = "u1"
        THEN [id |-> "u1", username |-> "alice", secretAnswer |-> <<"r", "e", "d">>,
              mantraProfile |-> Profile(<<100, 100, 100>>, <<8, 0, 25>>,
                                        <<100, 100>>, <<12, 40>>,
                                        <<200, 200>>, <<15, 30>>, <<"a", "b", "c">>),
              answerProfile |-> Profile(<<120, 120, 120>>, <<10, 10, 10>>,
                                        <<160, 160>>, <<20, 20>>,
                                        <<280, 280>>, <<25, 25>>, <<"r", "e", "d">>)]
        ELSE [id |-> "u2", username |-> "bob", secretAnswer |-> <<"s", "k", "y">>,
              mantraProfile |-> Profile(<<80, 160, 100>>, <<50, 80, 40>>,
                                        <<120, 100>>, <<60, 50>>,
                                        <<200, 260>>, <<80, 100>>, <<"a", "b", "c">>),
              answerProfile |-> Profile(<<100, 100, 100>>, <<50, 50, 50>>,
                                        <<100, 100>>, <<50, 50>>,
                                        <<200, 200>>, <<50, 50>>, <<"s", "k", "y">>)]]

\* Typed attempts: up to MaxKeys keys with dwell and flight values from the
\* grids of the phrase typed, and constant-rhythm attempts (one dwell, one
\* flight, repeated) of up to MaxSteadyKeys keys.
MaxKeys == 2
MaxSteadyKeys == 3
MantraDwellGrid == {60, 80, 120, 160, 220}
MantraFlightGrid == {120, 140}
AnswerDwellGrid == {120, 160}
AnswerFlightGrid == {160, 200}
SteadyDwellGrid == {100, 120}
SteadyFlightGrid == {100, 160}

TypedAs(dwells, flights) ==
    extractTimings(Synthesise([dwellTimes |-> dwells, flightTimes |-> flights]))
GridAttempts(dwellGrid, flightGrid) ==
    {EmptyTimings} \cup
    UNION {{TypedAs(d, f) : d \in [1..n -> dwellGrid], f \in [1..(n - 1) -> flightGrid]}
           : n \in 1..MaxKeys}
SteadyAttempts ==
    {TypedAs([i \in 1..n |-> d], [i \in 1..(n - 1) |-> f])
       : n \in 1..MaxSteadyKeys, d \in SteadyDwellGrid, f \in SteadyFlightGrid}
MantraAttempts == GridAttempts(MantraDwellGrid, MantraFlightGrid) \cup SteadyAttempts
AnswerAttempts == GridAttempts(AnswerDwellGrid, AnswerFlightGrid) \cup SteadyAttempts

(***************************************************************************)
(* LoginFlow.tsx                                                           *)
(***************************************************************************)
SELECT_USER == "SELECT_USER"
INPUT_MANTRA == "INPUT_MANTRA"
INPUT_CHALLENGE == "INPUT_CHALLENGE"
RESULT == "RESULT"

LoginInit ==
    /\ stage = SELECT_USER
    /\ selectedUser = NoUser
    /\ result = Null
    /\ mantraMatch = Null
    /\ mantraTimings = Null
    /\ users = StoredUsers
    /\ lastUser = NoUser

LoginIdle == LoginInit

\* A slip: a selection that takes the user straight to the challenge.
handleUserSelectSkipsMantra(u) ==
    /\ stage = SELECT_USER
    /\ selectedUser' = u
    /\ mantraMatch' = Null
    /\ mantraTimings' = Null
    /\ stage' = INPUT_CHALLENGE
    /\ UNCHANGED <<result, users>>

\* The user cards are rendered in the SELECT_USER stage only.
handleUserSelect(u) ==
    /\ stage = SELECT_USER
    /\ selectedUser' = u
    /\ mantraMatch' = Null
    /\ mantraTimings' = Null
    /\ stage' = INPUT_MANTRA
    /\ UNCHANGED <<result, users>>

\* The branches of handleMantraComplete.
primaryDecision(match) ==
    IF RLt(match.distance, THRESHOLD_ACCEPT) THEN "GRANTED"
    ELSE IF RLt(THRESHOLD_REJECT, match.distance) THEN "DENIED"
    ELSE "CHALLENGE"

\* A slip: the stored profile is adapted to every attempt that is scored.
handleMantraCompleteAdapts(timings) ==
    /\ stage = INPUT_MANTRA
    /\ selectedUser # NoUser
    /\ LET match == calculateMatch(Numbers(timings), users[selectedUser].mantraProfile)
           decision == primaryDecision(match)
       IN  /\ mantraMatch' = match
           /\ mantraTimings' = timings
           /\ IF decision = "CHALLENGE"
              THEN /\ stage' = INPUT_CHALLENGE
                   /\ UNCHANGED result
              ELSE /\ result' = [status |-> decision,
                                 confidence |-> match.confidence,
                                 mantraMatch |-> match,
                                 mantraTimings |-> timings,
                                 answerMatch |-> Null,
                                 answerTimings |-> Null,
                                 finalScore |-> Null,
                                 userProfile |-> selectedUser]
                   /\ stage' = RESULT
    /\ users' = [users EXCEPT ![selectedUser].mantraProfile.sampleCount = @ + 1]
    /\ UNCHANGED <<selectedUser>>

\* The mantra capture is mounted in the INPUT_MANTRA stage with a user selected.
handleMantraComplete(timings) ==
    /\ stage = INPUT_MANTRA
    /\ selectedUser # NoUser
    /\ LET match == calculateMatch(Numbers(timings), users[selectedUser].mantraProfile)
           decision == primaryDecision(match)
       IN  /\ mantraMatch' = match
           /\ mantraTimings' = timings
           /\ IF decision = "CHALLENGE"
              THEN /\ stage' = INPUT_CHALLENGE
                   /\ UNCHANGED result
              ELSE /\ result' = [status |-> decision,
                                 confidence |-> match.confidence,
                                 mantraMatch |-> match,
                                 mantraTimings |-> timings,
                                 answerMatch |-> Null,
                                 answerTimings |-> Null,
                                 finalScore |-> Null,
                                 userProfile |-> selectedUser]
                   /\ stage' = RESULT
    /\ UNCHANGED <<selectedUser, users>>

\* combinedDistance of handleChallengeComplete.
combine(mantraDistance, answerDistance) ==
    RAdd(RMul(mantraDistance, CHALLENGE_WEIGHTS.mantra),
         RMul(answerDistance, CHALLENGE_WEIGHTS.answer))

\* A plausible slip: a failed challenge asks again instead of denying.
challengeStatusAsksAgain(passed) == IF passed THEN "GRANTED" ELSE "CHALLENGE"

challengeStatus(passed) == IF passed THEN "GRANTED" ELSE "DENIED"

\* The challenge capture is mounted in the INPUT_CHALLENGE stage with a user
\* selected and a mantra match stored.
handleChallengeComplete(timings) ==
    /\ stage = INPUT_CHALLENGE
    /\ selectedUser # NoUser
    /\ mantraMatch # Null
    /\ LET answerMatch == calculateMatch(Numbers(timings), users[selectedUser].answerProfile)
           combinedDistance == combine(mantraMatch.distance, answerMatch.distance)
           combinedConfidence == distanceToConfidence(combinedDistance)
           passed == RLt(combinedDistance, CHALLENGE_THRESHOLD)
       IN  result' = [status |-> challengeStatus(passed),
                      confidence |-> RI(combinedConfidence),
                      mantraMatch |-> mantraMatch,
                      mantraTimings |-> mantraTimings,
                      answerMatch |-> answerMatch,
                      answerTimings |-> timings,
                      finalScore |-> combinedDistance,
                      userProfile |-> selectedUser]
    /\ stage' = RESULT
    /\ UNCHANGED <<selectedUser, mantraMatch, mantraTimings, users>>

\* A slip: a reset that leaves the match and the result of the session behind.
resetFlowKeepsMatch ==
    /\ stage = RESULT
    /\ selectedUser' = NoUser
    /\ stage' = SELECT_USER
    /\ UNCHANGED <<result, mantraMatch, mantraTimings, users>>

\* The button that resets the flow is rendered in the RESULT stage only.
resetFlow ==
    /\ stage = RESULT
    /\ result' = Null
    /\ mantraMatch' = Null
    /\ mantraTimings' = Null
    /\ selectedUser' = NoUser
    /\ stage' = SELECT_USER
    /\ UNCHANGED users

(***************************************************************************)
(* KeystrokeInput.tsx.  The environment is a keyboard: a physical key goes *)
(* down (keydown, followed at once by the change event of its default      *)
(* action unless the handler prevented it) and later up (keyup), keys may  *)
(* overlap, and the completion timer set by finishInput fires later.       *)
(* The disabled input (isComplete) takes no keydown.  The rhythm indicator *)
(* (avgDwell) is presentation only and is left out.                        *)
(***************************************************************************)
MaxClock == 6
MaxTimers == 2
TargetText == <<"a", "B", "a">>
Backspace == "Backspace"
Keys == {"KeyA", "KeyB", "KeyX", Backspace}
CharOf(k) == IF k = "KeyA" THEN "a" ELSE IF k = "KeyB" THEN "b" ELSE "x"
NoKey == "none"
\* String.prototype.toLowerCase on the characters in use.
toLowerCase(c) == IF c = "A" THEN "a" ELSE IF c = "B" THEN "b" ELSE c
NoPending == [time |-> 0, char |-> ""]

CaptureInit ==
    /\ inputText = <<>>
    /\ errors = <<>>
    /\ keystrokesRef = <<>>
    /\ pendingKeyDown = [k \in Keys |-> NoPending]
    /\ completedRef = FALSE
    /\ timerPending = 0
    /\ delivered = <<>>
    /\ held = {}
    /\ domInput = NoKey
    /\ selected = FALSE
    /\ now = 1

CaptureIdle == CaptureInit

\* handleKeyDown for physical key k at time now + 1.
handleKeyDown(k) ==
    /\ ~completedRef
    /\ domInput = NoKey
    /\ k \notin held
    /\ now < MaxClock
    /\ now' = now + 1
    /\ held' = held \cup {k}
    /\ IF k = Backspace
       THEN \* "Let onChange handle it": the default action deletes a character.
            /\ domInput' = IF Len(inputText) > 0 THEN k ELSE NoKey
            /\ UNCHANGED pendingKeyDown
       ELSE IF Len(inputText) >= Len(TargetText)
       THEN \* preventDefault: no change event follows.
            /\ domInput' = NoKey
            /\ UNCHANGED pendingKeyDown
       ELSE /\ pendingKeyDown' =
                  [pendingKeyDown EXCEPT ![k] =
                      [time |-> now', char |-> TargetText[Len(inputText) + 1]]]
            /\ domInput' = k
    /\ UNCHANGED <<inputText, errors, keystrokesRef, completedRef, timerPending, delivered,
                   selected>>

\* The user selects the whole text of the input (Ctrl+A, double click): no
\* handler of the component runs; the next edit replaces the selection.
selectAll ==
    /\ ~completedRef
    /\ domInput = NoKey
    /\ ~selected
    /\ Len(inputText) > 0
    /\ selected' = TRUE
    /\ UNCHANGED <<inputText, errors, keystrokesRef, pendingKeyDown, completedRef,
                   timerPending, delivered, held, domInput, now>>

\* handleChange for the change event that follows the keydown of domInput.
handleChange ==
    /\ domInput # NoKey
    /\ ~completedRef
    /\ LET newVal == IF selected
                     THEN IF domInput = Backspace THEN <<>> ELSE <<CharOf(domInput)>>
                     ELSE IF domInput = Backspace
                     THEN SubSeq(inputText, 1, Len(inputText) - 1)
                     ELSE Append(inputText, CharOf(domInput))
       IN  IF Len(newVal) < Len(inputText)
           THEN /\ keystrokesRef' =
                      SubSeq(keystrokesRef, 1, MinInt(Len(keystrokesRef), Len(newVal)))
                /\ errors' = SelectSeq(errors, LAMBDA idx : idx < Len(newVal))
                /\ inputText' = newVal
                /\ UNCHANGED <<completedRef, timerPending>>
           ELSE LET charIndex == Len(newVal) - 1
                    isCorrect == toLowerCase(newVal[charIndex + 1])
                                     = toLowerCase(TargetText[charIndex + 1])
                    hasErrors == Len(errors) > 0 \/ ~isCorrect
                    finishes  == Len(newVal) = Len(TargetText) /\ ~hasErrors
                IN  /\ errors' = IF isCorrect THEN errors ELSE Append(errors, charIndex)
                    /\ inputText' = newVal
                    /\ completedRef' = finishes
                    \* finishInput: completedRef is set and the timer started.
                    /\ timerPending' = IF finishes THEN timerPending + 1 ELSE timerPending
                    /\ UNCHANGED keystrokesRef
    /\ domInput' = NoKey
    /\ selected' = FALSE
    /\ UNCHANGED <<pendingKeyDown, delivered, held, now>>

\* handleKeyUp for physical key k, at time now or now + 1.
handleKeyUp(k) ==
    /\ k \in held
    /\ domInput = NoKey
    /\ now < MaxClock
    /\ \E dt \in {0, 1} : now' = now + dt
    /\ held' = held \ {k}
    /\ LET pending == pendingKeyDown[k]
       IN  IF pending # NoPending
           THEN /\ keystrokesRef' =
                      IF Len(keystrokesRef) < Len(TargetText)
                      THEN Append(keystrokesRef,
                                  [char |-> pending.char, code |-> k,
                                   keyDownTime |-> pending.time, keyUpTime |-> now'])
                      ELSE keystrokesRef
                /\ pendingKeyDown' = [pendingKeyDown EXCEPT ![k] = NoPending]
           ELSE UNCHANGED <<keystrokesRef, pendingKeyDown>>
    /\ UNCHANGED <<inputText, errors, completedRef, timerPending, delivered, domInput,
                   selected>>

\* The callback finishInput gave to setTimeout.
completionTimer ==
    /\ timerPending > 0
    /\ domInput = NoKey
    /\ now < MaxClock
    /\ now' = now + 1
    /\ LET patched ==
             [i \in 1..Len(keystrokesRef) |->
                 IF keystrokesRef[i].keyUpTime = 0
                    \/ keystrokesRef[i].keyUpTime <= keystrokesRef[i].keyDownTime
                 THEN [keystrokesRef[i] EXCEPT !.keyUpTime = now']
                 ELSE keystrokesRef[i]]
       IN  /\ keystrokesRef' = patched
           /\ delivered' = Append(delivered,
                                  [timings |-> extractTimings(patched), raw |-> patched])
    /\ timerPending' = timerPending - 1
    /\ UNCHANGED <<inputText, errors, pendingKeyDown, completedRef, held, domInput,
                   selected>>

\* reset(): the RESET button, or a change of targetText.  Pending timers stay.
reset ==
    /\ domInput = NoKey
    /\ timerPending < MaxTimers
    /\ inputText' = <<>>
    /\ errors' = <<>>
    /\ keystrokesRef' = <<>>
    /\ pendingKeyDown' = [k \in Keys |-> NoPending]
    /\ completedRef' = FALSE
    /\ selected' = FALSE
    /\ UNCHANGED <<timerPending, delivered, held, domInput, now>>

(***************************************************************************)
(* RegistrationFlow.tsx.  Every handler is enabled in the step that        *)
(* renders its form or its capture.  The checks on the text of the user    *)
(* name, the question and the answer are inputs of the handlers; the       *)
(* phrases are short stand-ins for MANTRA_TEXT and the secret answer.      *)
(* saveUser (storage.ts) is awaited; it answers true on each of its paths. *)
(***************************************************************************)
MANTRA_CALIBRATION_COUNT == 5
ANSWER_CALIBRATION_COUNT == 5
MIN_PROFILE_QUALITY == 30
MANTRA_TEXT == <<"a", "b">>
SecretAnswerText == <<"o", "k">>

USERNAME == "USERNAME"
MANTRA == "MANTRA"
SECRET_SETUP == "SECRET_SETUP"
ANSWER_CALIBRATION == "ANSWER_CALIBRATION"
FINISH == "FINISH"

\* What a capture can deliver to the registration handlers: two rhythms of
\* the same phrase; five attempts of one rhythm make a consistent profile,
\* a mix of the two an inconsistent one.
CalibrationTimings ==
    {TypedAs(<<100, 300>>, <<100>>), TypedAs(<<300, 100>>, <<500>>)}
NoError == "null"

\* More completions than this after failed saves are not followed.
MaxAnswerAttempts == 6

RegInit ==
    /\ step = USERNAME
    /\ mantraAttempts = <<>>
    /\ mantraProfile = Null
    /\ answerAttempts = <<>>
    /\ regError = NoError
    /\ savedUsers = <<>>
    /\ pendingSaves = <<>>

RegIdle == RegInit

handleUsernameSubmit(outcome) ==
    /\ step = USERNAME
    /\ IF outcome = "free"
       THEN step' = MANTRA /\ regError' = NoError
       ELSE step' = step /\ regError' = outcome
    /\ UNCHANGED <<mantraAttempts, mantraProfile, answerAttempts, savedUsers, pendingSaves>>

\* RegistrationFlow's handleMantraComplete.
handleMantraCalibration(timings) ==
    /\ step = MANTRA
    /\ LET attempt     == [timings |-> timings, isValid |-> TRUE]
           newAttempts == Append(mantraAttempts, attempt)
       IN  IF Len(newAttempts) >= MANTRA_CALIBRATION_COUNT
           THEN \E profile \in {buildProfile(newAttempts, MANTRA_TEXT)} :
                IF profile = BuildError
                THEN /\ regError' = "build"
                     /\ mantraAttempts' = <<>>
                     /\ UNCHANGED <<mantraProfile, step>>
                ELSE IF profile.quality < MIN_PROFILE_QUALITY
                THEN /\ regError' = "quality"
                     /\ mantraAttempts' = <<>>
                     /\ UNCHANGED <<mantraProfile, step>>
                ELSE /\ mantraAttempts' = newAttempts
                     /\ mantraProfile' = profile
                     /\ step' = SECRET_SETUP
                     /\ UNCHANGED regError
           ELSE /\ mantraAttempts' = newAttempts
                /\ UNCHANGED <<mantraProfile, step, regError>>
    /\ UNCHANGED <<answerAttempts, savedUsers, pendingSaves>>

handleSecretSetup(outcome) ==
    /\ step = SECRET_SETUP
    /\ IF outcome = "ok"
       THEN step' = ANSWER_CALIBRATION /\ regError' = NoError
       ELSE step' = step /\ regError' = outcome
    /\ UNCHANGED <<mantraAttempts, mantraProfile, answerAttempts, savedUsers, pendingSaves>>

\* finishRegistration up to its await, called by handleAnswerComplete with
\* the new attempts: the profile is built and saveUser is called.
finishRegistration(finalAnswerAttempts) ==
    \E answerProfile \in {buildProfile(finalAnswerAttempts, SecretAnswerText)} :
        LET newUser == [id |-> Len(savedUsers) + Len(pendingSaves) + 1,
                        mantraProfile |-> mantraProfile,
                        secretAnswer |-> SecretAnswerText,
                        answerProfile |-> answerProfile]
        IN  IF answerProfile = BuildError \/ mantraProfile = Null
            THEN /\ regError' = "save"
                 /\ UNCHANGED <<step, pendingSaves>>
            ELSE /\ regError' = NoError
                 /\ pendingSaves' = Append(pendingSaves, newUser)
                 /\ UNCHANGED step

\* RegistrationFlow's handleAnswerComplete.  The answer capture stays
\* mounted, under the loading overlay, while a save is awaited.
handleAnswerComplete(timings) ==
    /\ step = ANSWER_CALIBRATION
    /\ Len(answerAttempts) < MaxAnswerAttempts
    /\ LET attempt     == [timings |-> timings, isValid |-> TRUE]
           newAttempts == Append(answerAttempts, attempt)
       IN  /\ answerAttempts' = newAttempts
           /\ IF Len(newAttempts) >= ANSWER_CALIBRATION_COUNT
              THEN finishRegistration(newAttempts)
              ELSE UNCHANGED <<step, regError, pendingSaves>>
    /\ UNCHANGED <<mantraAttempts, mantraProfile, savedUsers>>

\* finishRegistration after its await: saveUser has stored the user and
\* answered; storage.ts returns true on each of its paths.
afterSaveUser(success) ==
    /\ pendingSaves # <<>>
    /\ pendingSaves' = Tail(pendingSaves)
    /\ savedUsers' = Append(savedUsers, Head(pendingSaves))
    /\ IF success
       THEN step' = FINISH /\ UNCHANGED regError
       ELSE regError' = "save" /\ UNCHANGED step
    /\ UNCHANGED <<mantraAttempts, mantraProfile, answerAttempts>>

(***************************************************************************)
(* Driver of buildProfile: the builder is applied to a list of attempts    *)
(* and to the same attempts in another order.                              *)
(***************************************************************************)
MaxAttempts == 3
MaxColumn == 8
FirstColumn == MANTRA_CALIBRATION_COUNT
ColumnGrid == {98, 99, 100, 105}
BuildText == <<"a", "b">>

OneKey(d) == TypedAs(<<d>>, <<>>)

\* Attempts of two keys, of one key (a capture that lost a keystroke), valid
\* or not, in every order.
SmallAttempts ==
    [timings : {TypedAs(<<100, 300>>, <<100>>), TypedAs(<<300, 100>>, <<-150>>), OneKey(120)},
     isValid : BOOLEAN]
SmallLists == UNION {[1..n -> SmallAttempts] : n \in 0..MaxAttempts}

\* One-key attempts whose dwell times are the samples of one position.
Column(samples) == [i \in 1..Len(samples) |-> [timings |-> OneKey(samples[i]), isValid |-> TRUE]]
SortedSamples ==
    UNION {{s \in [1..n -> ColumnGrid] : \A i \in 1..(n - 1) : s[i] <= s[i + 1]}
           : n \in FirstColumn..MaxColumn}
ColumnLists == {Column(s) : s \in SortedSamples \cup {<<120, 125, 118, 130, 122>>}}

\* Even and uneven typings of two keys, five of each mix.
NoisyLists ==
    {[i \in 1..5 |-> [timings |-> IF i <= k THEN TypedAs(<<100, 300>>, <<100>>)
                                            ELSE TypedAs(<<300, 100>>, <<500>>),
                      isValid |-> TRUE]] : k \in 0..5}

BuildInputs == SmallLists \cup ColumnLists \cup NoisyLists

Swap(s, i, j) == [k \in 1..Len(s) |-> IF k = i THEN s[j] ELSE IF k = j THEN s[i] ELSE s[k]]

BuildIdle ==
    /\ bpAttempts = <<>> /\ bpPermuted = <<>> /\ bpOut = Null /\ bpOutPermuted = Null
    /\ bpPc = "idle"

BuildInit ==
    /\ bpAttempts \in BuildInputs
    /\ bpPermuted = <<>>
    /\ bpOut = Null
    /\ bpOutPermuted = Null
    /\ bpPc = "attempts"

Build ==
    /\ bpPc = "attempts"
    /\ bpOut' = buildProfile(bpAttempts, BuildText)
    /\ bpPc' = "built"
    /\ UNCHANGED <<bpAttempts, bpPermuted, bpOutPermuted>>

Permute ==
    /\ bpPc = "built"
    /\ \E i, j \in 1..Len(bpAttempts) : i < j /\ bpPermuted' = Swap(bpAttempts, i, j)
    /\ bpPc' = "permuted"
    /\ UNCHANGED <<bpAttempts, bpOut, bpOutPermuted>>

BuildPermuted ==
    /\ bpPc = "permuted"
    /\ bpOutPermuted' = buildProfile(bpPermuted, BuildText)
    /\ bpPc' = "rebuilt"
    /\ UNCHANGED <<bpAttempts, bpPermuted, bpOut>>

(***************************************************************************)
(* Drivers of calculateProfileQuality and of scaledManhattan               *)
(***************************************************************************)
MaxPositions == 2
MeanGrid == {-50, 0, 40, 100}
MadGrid == {0, 10, 40, 90}
NoiseGrid == {1, 30, 200}
ScoreValueGrid == {0, 130, 400}
ScoreMeanGrid == {0, 100}
ScoreMadGrid == {0, 60}

StatsOf(means, mads) ==
    [mean |-> Ints(means), mad |-> Ints(mads), min |-> Ints(means), max |-> Ints(means)]

QualityInputs ==
    UNION {{StatsOf(m, d) : m \in [1..n -> MeanGrid], d \in [1..n -> MadGrid]}
           : n \in 0..MaxPositions}

\* The same statistics with the MAD of position i raised by noise.
Noisier(stats, i, noise) ==
    [stats EXCEPT !.mad[i] = RAdd(stats.mad[i], RI(noise))]

FnIdle ==
    /\ fnStats = Null /\ fnNoisier = Null /\ fnAttempt = <<>> /\ fnOut = Null
    /\ fnPc = "idle"

QualityInit ==
    /\ fnStats \in QualityInputs
    /\ fnNoisier \in {fnStats} \cup
                     {Noisier(fnStats, i, noise) : i \in 1..Len(fnStats.mean), noise \in NoiseGrid}
    /\ fnAttempt = <<>>
    /\ fnOut = Null
    /\ fnPc = "stats"

AssessQuality ==
    /\ fnPc = "stats"
    /\ fnOut' = [base    |-> calculateProfileQuality(fnStats),
                 noisier |-> calculateProfileQuality(fnNoisier)]
    /\ fnPc' = "assessed"
    /\ UNCHANGED <<fnStats, fnNoisier, fnAttempt>>

MaxScoreLen == 3
ScoreInit ==
    /\ fnAttempt \in UNION {[1..n -> ScoreValueGrid] : n \in 0..MaxScoreLen}
    /\ fnStats \in {[mean |-> Ints(m), mad |-> Ints(d)]
                      : m \in UNION {[1..n -> ScoreMeanGrid] : n \in 0..MaxScoreLen},
                        d \in UNION {[1..n -> ScoreMadGrid] : n \in 0..MaxScoreLen}}
    /\ fnNoisier = Null
    /\ fnOut = Null
    /\ fnPc = "attempt"

Score ==
    /\ fnPc = "attempt"
    /\ fnOut' = scaledManhattan(Ints(fnAttempt), fnStats.mean, fnStats.mad)
    /\ fnPc' = "scored"
    /\ UNCHANGED <<fnStats, fnNoisier, fnAttempt>>

\* An attempt and the same attempt with one value moved further from the
\* profile mean of its position, both scored against the same profile.
MovedGrid == {-60, 0, 90, 130, 400}
Further(attempt, means, i, w) ==
    /\ i <= Len(means)
    /\ RLt(RAbs(RSub(RI(attempt[i]), means[i])), RAbs(RSub(RI(w), means[i])))
DeviateInit ==
    /\ fnAttempt \in UNION {[1..n -> ScoreValueGrid] : n \in 1..MaxPositions}
    /\ fnStats \in {[mean |-> Ints(m), mad |-> Ints(d)]
                      : m \in UNION {[1..n -> ScoreMeanGrid] : n \in 1..MaxPositions},
                        d \in UNION {[1..n -> ScoreMadGrid] : n \in 1..MaxPositions}}
    /\ fnNoisier \in {[fnAttempt EXCEPT ![i] = w] : i \in 1..Len(fnAttempt), w \in MovedGrid}
    /\ \E i \in 1..Len(fnAttempt) :
          /\ Further(fnAttempt, fnStats.mean, i, fnNoisier[i])
          /\ \A j \in 1..Len(fnAttempt) : j # i => fnNoisier[j] = fnAttempt[j]
    /\ fnOut = Null
    /\ fnPc = "pair"

ScoreBoth ==
    /\ fnPc = "pair"
    /\ fnOut' = [base  |-> scaledManhattan(Ints(fnAttempt), fnStats.mean, fnStats.mad),
                 moved |-> scaledManhattan(Ints(fnNoisier), fnStats.mean, fnStats.mad)]
    /\ fnPc' = "compared"
    /\ UNCHANGED <<fnStats, fnNoisier, fnAttempt>>

(***************************************************************************)
(* Driver of calculateMatch: a profile is drawn, and calculateMatch is     *)
(* called on timing vectors one call after the other; the state keeps the  *)
(* last two calls.  The series hold numbers, NaN and the infinities        *)
(* included, and for each profile the vector made of its own means.        *)
(***************************************************************************)
MaxCalls == 2

NumStats(means, mads) == [mean |-> means, mad |-> mads, min |-> means, max |-> means]
MatchProfiles ==
    { StoredUsers["u1"].mantraProfile,
      \* means that are no integers, as buildProfile computes them
      [dwell  |-> NumStats(<<Rat(201, 2), RI(120)>>, <<Rat(18, 5), RI(0)>>),
       flight |-> NumStats(<<RI(100)>>, <<RI(50)>>),
       dd     |-> NumStats(<<Rat(401, 2)>>, <<RI(80)>>),
       sampleCount |-> 7, quality |-> 90, targetText |-> <<"a", "b">>, textLength |-> 2],
      \* NaN statistics, as buildProfile stores them for attempts of unequal length
      [dwell  |-> NumStats(<<RI(100), NaN>>, <<RI(10), NaN>>),
       flight |-> NumStats(<<NaN>>, <<NaN>>),
       dd     |-> NumStats(<<RI(0)>>, <<RI(0)>>),
       sampleCount |-> 2, quality |-> 50, targetText |-> <<"a", "b">>, textLength |-> 2],
      \* values no finite number, and a feature with no position
      [dwell  |-> NumStats(<<Infinity, RI(100)>>, <<RI(0), Infinity>>),
       flight |-> NumStats(<<RNeg(Infinity)>>, <<RNeg(Infinity)>>),
       dd     |-> NumStats(<<>>, <<>>),
       sampleCount |-> 2, quality |-> 50, targetText |-> <<"a", "b">>, textLength |-> 2] }

DwellSeries ==
    { <<>>, <<RI(100)>>, <<RI(100), RI(130)>>, <<RI(400), RI(100)>>, <<RI(90), RI(120)>>,
      <<NaN, RI(100)>>, <<Infinity, RI(100)>>, <<RI(0), Infinity>>, <<RNeg(Infinity)>> }
FlightSeries == { <<>>, <<RI(100)>>, <<RI(180)>>, <<NaN>>, <<RNeg(Infinity)>> }
DDSeries == { <<>>, <<RI(200)>>, <<Infinity>> }

FromMeans(profile) ==
    [dwellTimes |-> profile.dwell.mean, flightTimes |-> profile.flight.mean,
     ddLatencies |-> profile.dd.mean]
MatchTimings(profile) ==
    [dwellTimes : DwellSeries, flightTimes : FlightSeries, ddLatencies : DDSeries]
    \cup {FromMeans(profile)}

MatchIdle ==
    /\ mtProfile = Null /\ mtTimings = Null /\ mtOther = Null
    /\ mtOut = Null /\ mtOutOther = Null /\ mtCalls = 0

MatchInit ==
    /\ mtProfile \in MatchProfiles
    /\ mtTimings = Null /\ mtOther = Null
    /\ mtOut = Null /\ mtOutOther = Null
    /\ mtCalls = 0

Match(timings) ==
    /\ mtProfile # Null
    /\ mtCalls < MaxCalls
    /\ mtOther' = mtTimings
    /\ mtOutOther' = mtOut
    /\ mtTimings' = timings
    /\ mtOut' = calculateMatch(timings, mtProfile)
    /\ mtCalls' = mtCalls + 1
    /\ UNCHANGED <<mtProfile, featureWeights>>

\* result.weights is FEATURE_WEIGHTS itself (const weights = FEATURE_WEIGHTS;
\* return {..., weights}): an assignment to a field of a returned result's
\* weights is an assignment to the module's object and shows in every result.
Reweigh(match, weights) == IF match = Null THEN Null ELSE [match EXCEPT !.weights = weights]
assignWeight(field, value) ==
    /\ mtOut # Null
    /\ featureWeights' = [featureWeights EXCEPT ![field] = value]
    /\ mtOut' = Reweigh(mtOut, featureWeights')
    /\ mtOutOther' = Reweigh(mtOutOther, featureWeights')
    /\ UNCHANGED <<mtProfile, mtTimings, mtOther, mtCalls>>

(***************************************************************************)
(* storage.ts and the server's routes: the server's database, the          *)
(* browser's localStorage copy, and two registration sessions that share   *)
(* them.  A stored record is reduced to its id and username.  A session    *)
(* checks its name (handleUsernameSubmit, isUsernameTaken), calibrates,    *)
(* and saves (finishRegistration, saveUser): the POST to /api/register     *)
(* and, after the await, the write to localStorage.                        *)
(***************************************************************************)
Sessions == {1, 2}
Usernames == {<<"a", "b">>, <<"A", "b">>, <<"b", "a">>}
lower(name) == [i \in 1..Len(name) |-> toLowerCase(name[i])]
\* generateId: distinct ids for distinct registrations.
generateId(s) == s

StoreIdle ==
    /\ serverDb = <<>> /\ localUsers = <<>>
    /\ sessions = [s \in Sessions |-> [pc |-> "idle", username |-> <<>>, rejected |-> FALSE]]
    /\ apiCall = Null

StoreInit ==
    /\ serverDb = <<>> /\ localUsers = <<>>
    /\ sessions = [s \in Sessions |-> [pc |-> "USERNAME", username |-> <<>>, rejected |-> FALSE]]
    /\ apiCall = Null

\* users.some(u => u.username.toLowerCase() === name.toLowerCase())
nameExists(store, name) ==
    \E i \in 1..Len(store) : lower(store[i].username) = lower(name)

\* isUsernameTaken: the server's answer, or the local check when the server
\* cannot be reached.
isUsernameTaken(username, serverUp) ==
    IF serverUp THEN nameExists(serverDb, lower(username))
    ELSE nameExists(localUsers, lower(username))

\* handleUsernameSubmit, for a trimmed name of two characters or more.
submitUsername(s, username, serverUp) ==
    /\ sessions[s].pc = "USERNAME"
    /\ IF isUsernameTaken(username, serverUp)
       THEN UNCHANGED sessions
       ELSE sessions' = [sessions EXCEPT ![s].pc = "CALIBRATION", ![s].username = username]
    /\ UNCHANGED <<serverDb, localUsers, apiCall>>

\* saveUser up to its await: POST /api/register.  The route answers 400 for
\* a name that exists and 201 after adding the record; no answer or an
\* answer that is not ok takes saveUser to its catch block.
postRegister(s, serverUp) ==
    /\ sessions[s].pc = "CALIBRATION"
    /\ LET newUser == [id |-> generateId(s), username |-> sessions[s].username]
       IN  IF serverUp /\ ~nameExists(serverDb, newUser.username)
           THEN /\ serverDb' = Append(serverDb, newUser)
                /\ sessions' = [sessions EXCEPT ![s].pc = "BACKUP"]
           ELSE /\ UNCHANGED serverDb
                /\ sessions' = [sessions EXCEPT ![s].pc = "CATCH", ![s].rejected = serverUp]
    /\ UNCHANGED <<localUsers, apiCall>>

\* findIndex(u => u.id === user.id), then replace or push.
upsert(store, user) ==
    IF \E i \in 1..Len(store) : store[i].id = user.id
    THEN [i \in 1..Len(store) |-> IF store[i].id = user.id THEN user ELSE store[i]]
    ELSE Append(store, user)

\* saveUser after the await, in either branch: the record goes into
\* localStorage and saveUser returns true; finishRegistration then sets FINISH.
saveLocal(s) ==
    /\ sessions[s].pc \in {"BACKUP", "CATCH"}
    /\ localUsers' = upsert(localUsers,
                            [id |-> generateId(s), username |-> sessions[s].username])
    /\ sessions' = [sessions EXCEPT ![s].pc = "FINISH"]
    /\ UNCHANGED <<serverDb, apiCall>>

(***************************************************************************)
(* The server's routes (part_002) as functions of the database file and    *)
(* the request, and the calls of storage.ts that use them.  A record is    *)
(* [id, username, rev]: rev stands for every field other than the id and   *)
(* the name (profiles, lastLogin).  The empty name is a request without a  *)
(* username.  writeOk tells whether writeDb succeeds; net is the state of  *)
(* the network and of the server's disk during one call of the client.     *)
(***************************************************************************)
MaxUsers == 2
ApiIds == {1, 2}
ApiNames == {<<>>, <<"a">>, <<"A">>, <<"b">>}
Revisions == {0, 1}
ApiUsers == [id : ApiIds, username : ApiNames, rev : Revisions]
\* Bodies of a PUT request: any part of a record, or a whole one.
PutBodies ==
    {[username |-> n] : n \in ApiNames \ {<<>>}} \cup {[rev |-> r] : r \in Revisions}
      \cup {u \in ApiUsers : u.username # <<>>}
\* Records as finishRegistration makes them, and records read back and changed.
NewUsers == {u \in ApiUsers : u.rev = 0}
NamedUsers == {u \in ApiUsers : u.username # <<>>}
Nets == {"up", "down", "diskFull"}

\* users.findIndex(u => u.id === id), 0 for -1.
findIndex(store, id) ==
    IF \E i \in 1..Len(store) : store[i].id = id
    THEN CHOOSE i \in 1..Len(store) :
             store[i].id = id /\ \A j \in 1..(i - 1) : store[j].id # id
    ELSE 0

\* POST /api/register
registerRoute(db, newUser, writeOk) ==
    IF newUser.username = <<>> THEN [status |-> 400, db |-> db]
    ELSE IF nameExists(db, newUser.username) THEN [status |-> 400, db |-> db]
    ELSE IF writeOk THEN [status |-> 201, db |-> Append(db, newUser)]
    ELSE [status |-> 500, db |-> db]

\* PUT /api/users/:id with users[index] = { ...users[index], ...req.body }
putRoute(db, id, body, writeOk) ==
    LET index == findIndex(db, id)
    IN  IF index = 0 THEN [status |-> 404, db |-> db]
        ELSE IF writeOk THEN [status |-> 200, db |-> [db EXCEPT ![index] = body @@ db[index]]]
        ELSE [status |-> 500, db |-> db]

\* DELETE /api/users/:id
deleteRoute(db, id, writeOk) ==
    LET filtered == SelectSeq(db, LAMBDA u : u.id # id)
    IN  IF Len(filtered) = Len(db) THEN [status |-> 404, db |-> db]
        ELSE IF writeOk THEN [status |-> 200, db |-> filtered]
        ELSE [status |-> 500, db |-> db]

\* DELETE /api/reset
resetRoute(db, writeOk) ==
    IF writeOk THEN [status |-> 200, db |-> <<>>] ELSE [status |-> 500, db |-> db]

\* One request handled by the server.
serve(op, request, reply) ==
    /\ serverDb' = reply.db
    /\ apiCall' = [op |-> op, request |-> request, status |-> reply.status,
                   before |-> serverDb]
    /\ UNCHANGED <<localUsers, sessions>>

register(newUser, writeOk) ==
    /\ Len(registerRoute(serverDb, newUser, writeOk).db) <= MaxUsers
    /\ serve("register", newUser, registerRoute(serverDb, newUser, writeOk))

put(id, body, writeOk) ==
    serve("put", [id |-> id, body |-> body], putRoute(serverDb, id, body, writeOk))

delete(id, writeOk) ==
    serve("delete", [id |-> id], deleteRoute(serverDb, id, writeOk))

resetDb(writeOk) ==
    serve("reset", Null, resetRoute(serverDb, writeOk))

\* getUsers: the server's list, or localStorage when the server is not reached.
getUsers(serverUp) == IF serverUp THEN serverDb ELSE localUsers

\* The answer a client gets to a request: none (status 0) without a network.
answer(net, reply) == IF net = "down" THEN [status |-> 0, db |-> serverDb] ELSE reply

\* saveUser, with both of its paths: the record goes into localStorage and
\* the call returns true whatever the server answered.
saveUserAs(op, user, net) ==
    /\ Len(registerRoute(serverDb, user, net = "up").db) <= MaxUsers
    /\ LET reply == answer(net, registerRoute(serverDb, user, net = "up"))
       IN  /\ serverDb' = reply.db
           /\ localUsers' = upsert(localUsers, user)
           /\ apiCall' = [op |-> op, request |-> user, status |-> reply.status,
                          stored |-> findIndex(serverDb, user.id) # 0, returned |-> TRUE]
    /\ UNCHANGED sessions

saveUser(user, net) == saveUserAs("saveUser", user, net)

\* updateUser "just use[s] saveUser which handles upsert logic".
updateUser(user, net) == saveUserAs("updateUser", user, net)

\* deleteUser: DELETE /api/users/:id, then localStorage in every case.
deleteUser(id, net) ==
    /\ LET reply == answer(net, deleteRoute(serverDb, id, net = "up"))
       IN  /\ serverDb' = reply.db
           /\ localUsers' = SelectSeq(localUsers, LAMBDA u : u.id # id)
           /\ apiCall' = [op |-> "deleteUser", request |-> [id |-> id],
                          status |-> reply.status, returned |-> TRUE]
    /\ UNCHANGED sessions

\* resetDatabase: DELETE /api/reset, then the localStorage key is removed.
resetDatabase(net) ==
    /\ LET reply == answer(net, resetRoute(serverDb, net = "up"))
       IN  /\ serverDb' = reply.db
           /\ localUsers' = <<>>
           /\ apiCall' = [op |-> "resetDatabase", request |-> Null,
                          status |-> reply.status, returned |-> TRUE]
    /\ UNCHANGED sessions

(***************************************************************************)
(* Specifications                                                          *)
(***************************************************************************)
LaterIdle == MatchIdle /\ StoreIdle /\ ModuleInit
OtherIdle == RegIdle /\ BuildIdle /\ FnIdle /\ LaterIdle

Init == LoginInit /\ ExtractIdle /\ CaptureIdle /\ OtherIdle

Next ==
    \/ \E u \in UserIds : handleUserSelect(u) /\ UNCHANGED <<lastUser, extractVars, captureVars, regVars, buildVars, fnVars, matchVars, storeVars, moduleVars>>
    \/ \E t \in MantraAttempts : handleMantraComplete(t) /\ UNCHANGED <<lastUser, extractVars, captureVars, regVars, buildVars, fnVars, matchVars, storeVars, moduleVars>>
    \/ \E t \in AnswerAttempts : handleChallengeComplete(t) /\ UNCHANGED <<lastUser, extractVars, captureVars, regVars, buildVars, fnVars, matchVars, storeVars, moduleVars>>
    \/ resetFlow /\ UNCHANGED <<lastUser, extractVars, captureVars, regVars, buildVars, fnVars, matchVars, storeVars, moduleVars>>

Spec == Init /\ [][Next]_vars

\* The login flow with its history: resetFlow records whose session it ended,
\* and the record is kept through the next session when that session is
\* another user's.
NextSessions ==
    \/ \E u \in UserIds :
          /\ handleUserSelect(u)
          /\ lastUser' = IF lastUser = u THEN NoUser ELSE lastUser
          /\ UNCHANGED <<extractVars, captureVars, regVars, buildVars, fnVars, matchVars, storeVars, moduleVars>>
    \/ \E t \in MantraAttempts : handleMantraComplete(t) /\ UNCHANGED <<lastUser, extractVars, captureVars, regVars, buildVars, fnVars, matchVars, storeVars, moduleVars>>
    \/ \E t \in AnswerAttempts : handleChallengeComplete(t) /\ UNCHANGED <<lastUser, extractVars, captureVars, regVars, buildVars, fnVars, matchVars, storeVars, moduleVars>>
    \/ resetFlow /\ lastUser' = selectedUser /\ UNCHANGED <<extractVars, captureVars, regVars, buildVars, fnVars, matchVars, storeVars, moduleVars>>

SpecSessions == Init /\ [][NextSessions]_vars

InitExtract == LoginIdle /\ ExtractInit /\ CaptureIdle /\ OtherIdle

NextExtract ==
    \/ ExtractFirst /\ UNCHANGED <<loginVars, captureVars, regVars, buildVars, fnVars, matchVars, storeVars, moduleVars>>
    \/ Resynthesise /\ UNCHANGED <<loginVars, captureVars, regVars, buildVars, fnVars, matchVars, storeVars, moduleVars>>
    \/ ExtractAgain /\ UNCHANGED <<loginVars, captureVars, regVars, buildVars, fnVars, matchVars, storeVars, moduleVars>>

SpecExtract == InitExtract /\ [][NextExtract]_vars

InitCapture == LoginIdle /\ ExtractIdle /\ CaptureInit /\ OtherIdle

NextCapture ==
    \/ \E k \in Keys : handleKeyDown(k) /\ UNCHANGED <<loginVars, extractVars, regVars, buildVars, fnVars, matchVars, storeVars, moduleVars>>
    \/ handleChange /\ UNCHANGED <<loginVars, extractVars, regVars, buildVars, fnVars, matchVars, storeVars, moduleVars>>
    \/ selectAll /\ UNCHANGED <<loginVars, extractVars, regVars, buildVars, fnVars, matchVars, storeVars, moduleVars>>
    \/ \E k \in Keys : handleKeyUp(k) /\ UNCHANGED <<loginVars, extractVars, regVars, buildVars, fnVars, matchVars, storeVars, moduleVars>>
    \/ completionTimer /\ UNCHANGED <<loginVars, extractVars, regVars, buildVars, fnVars, matchVars, storeVars, moduleVars>>
    \/ reset /\ UNCHANGED <<loginVars, extractVars, regVars, buildVars, fnVars, matchVars, storeVars, moduleVars>>

SpecCapture == InitCapture /\ [][NextCapture]_vars

\* One capture from its mount to its completion, the RESET button untouched.
NextTyping ==
    \/ \E k \in Keys : handleKeyDown(k) /\ UNCHANGED <<loginVars, extractVars, regVars, buildVars, fnVars, matchVars, storeVars, moduleVars>>
    \/ handleChange /\ UNCHANGED <<loginVars, extractVars, regVars, buildVars, fnVars, matchVars, storeVars, moduleVars>>
    \/ selectAll /\ UNCHANGED <<loginVars, extractVars, regVars, buildVars, fnVars, matchVars, storeVars, moduleVars>>
    \/ \E k \in Keys : handleKeyUp(k) /\ UNCHANGED <<loginVars, extractVars, regVars, buildVars, fnVars, matchVars, storeVars, moduleVars>>
    \/ completionTimer /\ UNCHANGED <<loginVars, extractVars, regVars, buildVars, fnVars, matchVars, storeVars, moduleVars>>

SpecTyping == InitCapture /\ [][NextTyping]_vars

InitRegistration ==
    LoginIdle /\ ExtractIdle /\ CaptureIdle /\ RegInit /\ BuildIdle /\ FnIdle /\ LaterIdle

NextRegistration ==
    \/ \E outcome \in {"free", "empty", "short", "taken", "offline"} :
          handleUsernameSubmit(outcome)
            /\ UNCHANGED <<loginVars, extractVars, captureVars, buildVars, fnVars, matchVars, storeVars, moduleVars>>
    \/ \E t \in CalibrationTimings :
          handleMantraCalibration(t)
            /\ UNCHANGED <<loginVars, extractVars, captureVars, buildVars, fnVars, matchVars, storeVars, moduleVars>>
    \/ \E outcome \in {"ok", "noQuestion", "shortAnswer"} :
          handleSecretSetup(outcome)
            /\ UNCHANGED <<loginVars, extractVars, captureVars, buildVars, fnVars, matchVars, storeVars, moduleVars>>
    \/ \E t \in CalibrationTimings :
          handleAnswerComplete(t)
            /\ UNCHANGED <<loginVars, extractVars, captureVars, buildVars, fnVars, matchVars, storeVars, moduleVars>>
    \/ \E success \in {TRUE} :
          afterSaveUser(success)
            /\ UNCHANGED <<loginVars, extractVars, captureVars, buildVars, fnVars, matchVars, storeVars, moduleVars>>

SpecRegistration == InitRegistration /\ [][NextRegistration]_vars

InitBuild ==
    LoginIdle /\ ExtractIdle /\ CaptureIdle /\ RegIdle /\ BuildInit /\ FnIdle /\ LaterIdle

NextBuild ==
    \/ Build /\ UNCHANGED <<loginVars, extractVars, captureVars, regVars, fnVars, matchVars, storeVars, moduleVars>>
    \/ Permute /\ UNCHANGED <<loginVars, extractVars, captureVars, regVars, fnVars, matchVars, storeVars, moduleVars>>
    \/ BuildPermuted /\ UNCHANGED <<loginVars, extractVars, captureVars, regVars, fnVars, matchVars, storeVars, moduleVars>>

SpecBuild == InitBuild /\ [][NextBuild]_vars

InitQuality ==
    LoginIdle /\ ExtractIdle /\ CaptureIdle /\ RegIdle /\ BuildIdle /\ QualityInit /\ LaterIdle

NextQuality ==
    AssessQuality /\ UNCHANGED <<loginVars, extractVars, captureVars, regVars, buildVars, matchVars, storeVars, moduleVars>>

SpecQuality == InitQuality /\ [][NextQuality]_vars

InitScore ==
    LoginIdle /\ ExtractIdle /\ CaptureIdle /\ RegIdle /\ BuildIdle /\ ScoreInit /\ LaterIdle

NextScore ==
    Score /\ UNCHANGED <<loginVars, extractVars, captureVars, regVars, buildVars, matchVars, storeVars, moduleVars>>

SpecScore == InitScore /\ [][NextScore]_vars

InitDeviate ==
    LoginIdle /\ ExtractIdle /\ CaptureIdle /\ RegIdle /\ BuildIdle /\ DeviateInit /\ LaterIdle

NextDeviate ==
    ScoreBoth /\ UNCHANGED <<loginVars, extractVars, captureVars, regVars, buildVars, matchVars, storeVars, moduleVars>>

SpecDeviate == InitDeviate /\ [][NextDeviate]_vars

EarlierIdle == LoginIdle /\ ExtractIdle /\ CaptureIdle /\ RegIdle /\ BuildIdle /\ FnIdle

InitMatch == EarlierIdle /\ MatchInit /\ StoreIdle /\ ModuleInit

NextMatch ==
    \E t \in MatchTimings(mtProfile) :
        Match(t) /\ UNCHANGED <<loginVars, extractVars, captureVars, regVars, buildVars, fnVars, storeVars>>

SpecMatch == InitMatch /\ [][NextMatch]_vars

\* calculateMatch called by holders of earlier results that assign to the
\* weights they were handed.
NextShared ==
    \/ NextMatch
    \/ \E field \in {"flight"}, value \in {RI(0), RI(1)} :
          assignWeight(field, value)
            /\ UNCHANGED <<loginVars, extractVars, captureVars, regVars, buildVars, fnVars, storeVars>>

SpecShared == InitMatch /\ [][NextShared]_vars

InitStore == EarlierIdle /\ MatchIdle /\ StoreInit /\ ModuleInit

NextStore ==
    \/ \E s \in Sessions, username \in Usernames, serverUp \in BOOLEAN :
          submitUsername(s, username, serverUp)
            /\ UNCHANGED <<loginVars, extractVars, captureVars, regVars, buildVars, fnVars, matchVars, moduleVars>>
    \/ \E s \in Sessions, serverUp \in BOOLEAN :
          postRegister(s, serverUp)
            /\ UNCHANGED <<loginVars, extractVars, captureVars, regVars, buildVars, fnVars, matchVars, moduleVars>>
    \/ \E s \in Sessions :
          saveLocal(s)
            /\ UNCHANGED <<loginVars, extractVars, captureVars, regVars, buildVars, fnVars, matchVars, moduleVars>>

SpecStore == InitStore /\ [][NextStore]_vars

OtherThanStore ==
    <<loginVars, extractVars, captureVars, regVars, buildVars, fnVars, matchVars, moduleVars>>

InitServer == EarlierIdle /\ MatchIdle /\ StoreIdle /\ ModuleInit

NextServer ==
    \/ \E newUser \in ApiUsers, writeOk \in BOOLEAN :
          register(newUser, writeOk) /\ UNCHANGED OtherThanStore
    \/ \E id \in ApiIds, body \in PutBodies, writeOk \in BOOLEAN :
          put(id, body, writeOk) /\ UNCHANGED OtherThanStore
    \/ \E id \in ApiIds, writeOk \in BOOLEAN :
          delete(id, writeOk) /\ UNCHANGED OtherThanStore
    \/ \E writeOk \in BOOLEAN :
          resetDb(writeOk) /\ UNCHANGED OtherThanStore

SpecServer == InitServer /\ [][NextServer]_vars

NextClient ==
    \/ \E user \in NewUsers, net \in Nets :
          saveUser(user, net) /\ UNCHANGED OtherThanStore
    \/ \E user \in NamedUsers, net \in Nets :
          updateUser(user, net) /\ UNCHANGED OtherThanStore
    \/ \E id \in ApiIds, net \in Nets :
          deleteUser(id, net) /\ UNCHANGED OtherThanStore
    \/ \E net \in Nets :
          resetDatabase(net) /\ UNCHANGED OtherThanStore

SpecClient == InitServer /\ [][NextClient]_vars

(***************************************************************************)
(* Properties of the decision policy (specification Spec)                  *)
(***************************************************************************)
\* The primary (mantra) match has been decided and no challenge answered yet.
PrimaryDone ==
    /\ mantraMatch # Null
    /\ \/ stage = INPUT_CHALLENGE
       \/ stage = RESULT /\ result.answerMatch = Null
PrimaryOutcome == IF stage = INPUT_CHALLENGE THEN "CHALLENGE" ELSE result.status
PrimaryLiveness == detectLiveness(mantraTimings)
ChallengeDone == stage = RESULT /\ result.answerMatch # Null

AcceptCondition ==
    /\ RLt(mantraMatch.distance, THRESHOLD_ACCEPT)
    /\ RLe(RI(MIN_CONFIDENCE_ACCEPT), mantraMatch.confidence)
    /\ PrimaryLiveness.isHuman
RejectCondition ==
    \/ RLt(THRESHOLD_REJECT, mantraMatch.distance)
    \/ RLt(mantraMatch.confidence, RI(MIN_CONFIDENCE_CHALLENGE))
    \/ ~PrimaryLiveness.isHuman /\ RLt(PrimaryLiveness.score, Rat(3, 10))

\* C1: a primary match is GRANTED directly if distance < 0.55, confidence >= 55
\* and the attempt is human, and no primary match that is not human or has
\* confidence < 55 is GRANTED directly.
C1_AcceptPolicy ==
    PrimaryDone =>
        /\ AcceptCondition => PrimaryOutcome = "GRANTED"
        /\ (~PrimaryLiveness.isHuman \/ RLt(mantraMatch.confidence, RI(MIN_CONFIDENCE_ACCEPT)))
              => PrimaryOutcome # "GRANTED"

\* C2: a primary match is DENIED directly if distance > 1.1, or confidence < 35,
\* or the attempt is not human with a liveness score below 0.3.
C2_RejectPolicy ==
    PrimaryDone => (RejectCondition => PrimaryOutcome = "DENIED")

\* C3: the challenge stage is entered exactly when neither the accept nor the
\* reject condition holds, GRANTED exactly on the accept condition and DENIED
\* exactly on the reject condition.
C3_ThreeWaySplit ==
    PrimaryDone =>
        /\ (PrimaryOutcome = "CHALLENGE") <=> (~AcceptCondition /\ ~RejectCondition)
        /\ ~(AcceptCondition /\ RejectCondition)

\* C4: after the challenge the combined distance is mantra * 0.55 + answer * 0.45,
\* the combined confidence comes from it by calculateMatch's own conversion, and
\* the outcome is GRANTED exactly when combined distance < 0.9, combined
\* confidence >= 35 and the answer is human or has liveness score >= 0.4;
\* otherwise it is DENIED.
C4_ChallengePolicy ==
    ChallengeDone =>
        LET cd == RAdd(RMul(result.mantraMatch.distance, Rat(55, 100)),
                       RMul(result.answerMatch.distance, Rat(45, 100)))
            live == detectLiveness(result.answerTimings)
            pass == /\ RLt(cd, CHALLENGE_THRESHOLD)
                    /\ RLe(RI(MIN_CONFIDENCE_CHALLENGE), result.confidence)
                    /\ (live.isHuman \/ RLe(Rat(4, 10), live.score))
        IN  /\ result.finalScore = cd
            /\ result.confidence = matchConfidence(cd)
            /\ result.status = IF pass THEN "GRANTED" ELSE "DENIED"

\* C5: the stages follow SELECT_USER -> INPUT_MANTRA -> {RESULT | INPUT_CHALLENGE}
\* -> RESULT, a completed challenge always gives GRANTED or DENIED, and a result
\* once shown changes only by the reset to user selection.
C5_StepAllowed ==
    /\ stage = SELECT_USER => stage' \in {SELECT_USER, INPUT_MANTRA}
    /\ stage = INPUT_MANTRA => stage' \in {INPUT_MANTRA, INPUT_CHALLENGE, RESULT}
    /\ stage = INPUT_CHALLENGE => stage' \in {INPUT_CHALLENGE, RESULT}
    /\ stage = RESULT =>
          \/ stage' = RESULT /\ result' = result
          \/ stage' = SELECT_USER /\ result' = Null
    /\ stage' = RESULT => result' # Null /\ result'.status \in {"GRANTED", "DENIED"}
    /\ stage' # RESULT => result' = Null
Comparable(attemptValues, stats) ==
    MinInt(Len(attemptValues), MinInt(Len(stats.mean), Len(stats.mad)))
SentinelWhenDegenerate(match, timings, profile) ==
    /\ Comparable(timings.dwellTimes, profile.dwell) = 0 => match.dwellScore = RI(10)
    /\ Comparable(timings.flightTimes, profile.flight) = 0 => match.flightScore = RI(10)
    /\ Comparable(timings.ddLatencies, profile.dd) = 0 => match.ddScore = RI(10)
C6_DegenerateComparison ==
    /\ PrimaryDone =>
          /\ SentinelWhenDegenerate(mantraMatch, mantraTimings,
                                    users[selectedUser].mantraProfile)
          /\ PrimaryOutcome \in {"GRANTED", "DENIED", "CHALLENGE"}
          /\ mantraTimings.dwellTimes = <<>> =>
                /\ mantraMatch.distance = RI(10)
                /\ stage = RESULT
                /\ result.status = "DENIED"
    /\ ChallengeDone =>
          /\ SentinelWhenDegenerate(result.answerMatch, result.answerTimings,
                                    users[selectedUser].answerProfile)
          /\ result.status \in {"GRANTED", "DENIED"}
C6_Witness ==
    /\ PrimaryDone
    /\ mantraTimings = EmptyTimings
    /\ result.status = "DENIED"
    /\ mantraMatch.dwellScore = RI(10)

(***************************************************************************)
(* Properties of extractTimings (specification SpecExtract)                *)
(***************************************************************************)
\* C7: N keystrokes give N dwell times and, for N > 0, N - 1 flight times and
\* N - 1 dd latencies; no keystroke gives empty series and totalTime 0.
C7_SeriesLengths ==
    exPc \in {"extracted", "reextracted"} =>
        LET n == Len(exIn)
        IN  /\ Len(exOut.dwellTimes) = n
            /\ n > 0 => Len(exOut.flightTimes) = n - 1 /\ Len(exOut.ddLatencies) = n - 1
            /\ n = 0 => /\ exOut.flightTimes = <<>>
                        /\ exOut.ddLatencies = <<>>
                        /\ exOut.totalTime = 0
C7_Witness ==
    /\ exPc = "extracted"
    /\ Len(exIn) = 1
    /\ Len(exOut.dwellTimes) = 1
    /\ exOut.flightTimes = <<>>
    /\ exOut.ddLatencies = <<>>

\* C8: every extracted value is within its clamp range, also for a release
\* before the press and for timestamps out of order.
C8_ClampRanges ==
    exPc \in {"extracted", "reextracted"} =>
        /\ \A i \in 1..Len(exOut.dwellTimes) :
              exOut.dwellTimes[i] >= 10 /\ exOut.dwellTimes[i] <= 1000
        /\ \A i \in 1..Len(exOut.flightTimes) :
              exOut.flightTimes[i] >= -200 /\ exOut.flightTimes[i] <= 2000
        /\ \A i \in 1..Len(exOut.ddLatencies) :
              exOut.ddLatencies[i] >= 10 /\ exOut.ddLatencies[i] <= 3000
\* A release before the press, a second key pressed before the first, and both
\* ends of the dwell range reached by clamping.
C8_Witness ==
    /\ exPc = "extracted"
    /\ Len(exIn) = 2
    /\ exIn[1].keyUpTime < exIn[1].keyDownTime
    /\ exIn[2].keyDownTime < exIn[1].keyDownTime
    /\ exIn[2].keyUpTime - exIn[2].keyDownTime > 1000
    /\ exOut.dwellTimes = <<10, 1000>>
    /\ exOut.flightTimes[1] = -200
    /\ exOut.ddLatencies[1] = 10

\* C9 as stated: events synthesised from a clamped vector extract to the same
\* dwell times, flight times and dd latencies.
C9_SameVector ==
    exPc = "reextracted" =>
        /\ exOut.dwellTimes = exFirst.dwellTimes
        /\ exOut.flightTimes = exFirst.flightTimes
        /\ exOut.ddLatencies = exFirst.ddLatencies

\* C9 as amended: events synthesised from a clamped vector extract to the same
\* dwell and flight times, and to dd latencies clamp(dwell[i] + flight[i], 10, 3000).
C9_DwellFlightStable ==
    exPc = "reextracted" =>
        /\ exOut.dwellTimes = exFirst.dwellTimes
        /\ exOut.flightTimes = exFirst.flightTimes
        /\ \A i \in 1..Len(exOut.ddLatencies) :
              exOut.ddLatencies[i] =
                  MaxInt(10, MinInt(3000, exFirst.dwellTimes[i] + exFirst.flightTimes[i]))
\* A vector in which clamping had changed a value, re-extracted.
C9_Witness ==
    /\ exPc = "reextracted"
    /\ Len(exFirst.dwellTimes) = 2
    /\ exFirst.dwellTimes[1] = 1000
    /\ exFirst.flightTimes[1] = -200
    /\ exOut.ddLatencies # exFirst.ddLatencies

(***************************************************************************)
(* Properties of the capture component (specification SpecCapture)         *)
(***************************************************************************)
\* C10: every list of raw keystrokes handed to the extractor holds exactly one
\* keystroke per character of the target, in typing order, the entry at
\* index i carrying the character targetText[i].
C10_OnePerCharacter ==
    \A j \in 1..Len(delivered) :
        LET raw == delivered[j].raw
        IN  /\ Len(raw) = Len(TargetText)
            /\ \A i \in 1..Len(raw) : raw[i].char = TargetText[i]
            /\ \A i \in 1..(Len(raw) - 1) : raw[i].keyDownTime <= raw[i + 1].keyDownTime


(***************************************************************************)
(* C11.  A capture completes only on a full, error-free typing: whenever   *)
(* finishInput runs (the completion is decided) and whenever onComplete is *)
(* invoked (an attempt is delivered), the typed text has the length of the *)
(* target, every position matches the target character without regard to   *)
(* case, and the error list is empty.                                      *)
(***************************************************************************)
TypedCorrectly(text, errorList) ==
    /\ Len(text) = Len(TargetText)
    /\ \A i \in 1..Len(text) : toLowerCase(text[i]) = toLowerCase(TargetText[i])
    /\ errorList = <<>>

C11_Step ==
    /\ (completedRef' /\ ~completedRef) => TypedCorrectly(inputText', errors')
    /\ (Len(delivered') > Len(delivered)) => TypedCorrectly(inputText, errors)

C11_CompletesOnlyWhenCorrect == [][C11_Step]_vars

(***************************************************************************)
(* C12.  buildProfile signals an error and returns no profile when none of *)
(* the supplied attempts is valid (an empty list, or every attempt with    *)
(* isValid = false).                                                       *)
(***************************************************************************)
Built == bpPc \in {"built", "permuted", "rebuilt"}
NoValidAttempt(attempts) == \A i \in 1..Len(attempts) : ~attempts[i].isValid

C14_OrderInvariant ==
    bpPc = "rebuilt" =>
        IF bpOut = BuildError THEN bpOutPermuted = BuildError
        ELSE /\ bpOutPermuted # BuildError
             /\ bpOutPermuted.dwell = bpOut.dwell
             /\ bpOutPermuted.flight = bpOut.flight
             /\ bpOutPermuted.dd = bpOut.dd
             /\ bpOutPermuted.sampleCount = bpOut.sampleCount
             /\ bpOutPermuted.quality = bpOut.quality

(***************************************************************************)
(* C15.  In every profile buildProfile returns, every per-position MAD of  *)
(* the dwell, flight and dd statistics is at least 40 ms.                  *)
(***************************************************************************)
MadsAtLeast(stats, floor) ==
    \A i \in 1..Len(stats.mad) : stats.mad[i] # NaN /\ RLe(RI(floor), stats.mad[i])

C15_MadFloor ==
    (Built /\ bpOut # BuildError) =>
        /\ MadsAtLeast(bpOut.dwell, 40)
        /\ MadsAtLeast(bpOut.flight, 40)
        /\ MadsAtLeast(bpOut.dd, 40)

(***************************************************************************)
(* C16.  A profile built from fewer than 8 attempts stores, per position,  *)
(* the MAD blended toward the feature's global MAD (over all positions and *)
(* attempts) with weight 0.3 * min(1, (8 - sampleCount) / 8), then floored *)
(* at 40 ms; with 8 or more attempts the per-position MAD is not blended.  *)
(* Stated up to the 40 ms floor, on attempts whose series have one length. *)
(***************************************************************************)
ValidOf(attempts) == SelectSeq(attempts, LAMBDA a : a.isValid)
DwellsOf(attempts) == [i \in 1..Len(attempts) |-> attempts[i].timings.dwellTimes]
FlightsOf(attempts) == [i \in 1..Len(attempts) |-> attempts[i].timings.flightTimes]
DDsOf(attempts) == [i \in 1..Len(attempts) |-> attempts[i].timings.ddLatencies]
Regular(matrix) == \A i, j \in 1..Len(matrix) : Len(matrix[i]) = Len(matrix[j])

RECURSIVE Flatten(_)
Flatten(matrix) == IF matrix = <<>> THEN <<>> ELSE Head(matrix) \o Flatten(Tail(matrix))

GlobalMad(matrix) == calculateMAD(Flatten(matrix), mean(Flatten(matrix)))
SmoothingWeight(sampleCount) ==
    IF sampleCount >= 8 THEN RI(0) ELSE Rat(3 * (8 - sampleCount), 80)
BlendedMad(matrix, c) ==
    LET w   == SmoothingWeight(Len(matrix))
        raw == positionStats(transpose(matrix)[c]).mad
    IN  RAdd(RMul(RSub(RI(1), w), raw), RMul(w, GlobalMad(matrix)))
Floored(x) == RMax(x, RI(40))
StoresBlendedMad(stats, matrix) ==
    \A c \in 1..Len(stats.mad) : Floored(stats.mad[c]) = Floored(BlendedMad(matrix, c))

C16_SmoothedMad ==
    (/\ Built /\ bpOut # BuildError
     /\ Regular(DwellsOf(ValidOf(bpAttempts)))) =>
        /\ StoresBlendedMad(bpOut.dwell, DwellsOf(ValidOf(bpAttempts)))
        /\ StoresBlendedMad(bpOut.flight, FlightsOf(ValidOf(bpAttempts)))
        /\ StoresBlendedMad(bpOut.dd, DDsOf(ValidOf(bpAttempts)))

(***************************************************************************)
(* C17.  Per position, outlier removal drops exactly the values whose      *)
(* |value - mean| / populationStdDev exceeds 2.5 (a value at exactly 2.5   *)
(* is kept) and nothing when the position has fewer than 3 samples or no   *)
(* variance; the stored mean and MAD are those of the remaining values.    *)
(***************************************************************************)
\* z > 2.5 for value v among values, squared and cleared of denominators.
ExceedsThreshold(values, v) ==
    LET n  == Len(values)
        S  == IntSum(values)
        sq == IntSum([i \in 1..n |-> (n * values[i] - S) * (n * values[i] - S)])
    IN  n >= 3 /\ sq > 0 /\ 4 * n * (n * v - S) * (n * v - S) > 25 * sq
KeptValues(values) == SelectSeq(values, LAMBDA v : ~ExceedsThreshold(values, v))
ColumnOf(matrix, c) == [r \in 1..Len(matrix) |-> matrix[r][c]]
StatsOfKept(stats, matrix) ==
    \A c \in 1..Len(stats.mean) :
        LET kept == KeptValues(ColumnOf(matrix, c))
        IN  /\ stats.mean[c] = mean(kept)
            /\ stats.mad[c] = calculateMAD(kept, mean(kept))

C17_OutlierRule ==
    (/\ Built /\ bpOut # BuildError
     /\ Regular(DwellsOf(ValidOf(bpAttempts)))) =>
        /\ StatsOfKept(bpOut.dwell, DwellsOf(ValidOf(bpAttempts)))
        /\ StatsOfKept(bpOut.flight, FlightsOf(ValidOf(bpAttempts)))
        /\ StatsOfKept(bpOut.dd, DDsOf(ValidOf(bpAttempts)))

(***************************************************************************)
(* C18.  The overall quality of a profile is the weighted sum              *)
(* 0.30 dwellQuality + 0.50 flightQuality + 0.20 ddQuality rounded to a    *)
(* nearest integer; the per-feature qualities and the overall quality are  *)
(* integers in 0 .. 100, and a feature with no position of positive mean   *)
(* has quality 0.                                                          *)
(***************************************************************************)
NoPositiveMean(stats) == \A i \in 1..Len(stats.mean) : ~RLt(RI(0), stats.mean[i])
FeatureQualityOk(stats) ==
    /\ calculateProfileQuality(stats) \in 0..100
    /\ NoPositiveMean(stats) => calculateProfileQuality(stats) = 0
WeightedHundredths(profile) ==
    30 * calculateProfileQuality(profile.dwell)
      + 50 * calculateProfileQuality(profile.flight)
      + 20 * calculateProfileQuality(profile.dd)

C18_WeightedQuality ==
    (Built /\ bpOut # BuildError) =>
        /\ FeatureQualityOk(bpOut.dwell)
        /\ FeatureQualityOk(bpOut.flight)
        /\ FeatureQualityOk(bpOut.dd)
        /\ bpOut.quality \in 0..100
        /\ AbsInt(100 * bpOut.quality - WeightedHundredths(bpOut)) <= 50

C18_Witness ==
    /\ bpPc = "built" /\ bpOut # BuildError
    /\ calculateProfileQuality(bpOut.dwell) \in 1..99
    /\ Len(bpOut.flight.mean) > 0 /\ NoPositiveMean(bpOut.flight)
    /\ calculateProfileQuality(bpOut.dd) \in 1..99
    /\ calculateProfileQuality(bpOut.dwell) # calculateProfileQuality(bpOut.dd)
    /\ bpOut.quality \in 1..99

(***************************************************************************)
(* C13.  No user is saved whose mantraProfile or answerProfile has a       *)
(* quality below MIN_PROFILE_QUALITY: a profile below the floor is         *)
(* discarded, never kept by the flow and never saved.                      *)
(***************************************************************************)
QualityAccepted(profile) == profile.quality >= MIN_PROFILE_QUALITY

C13_NoLowQualityProfileSaved ==
    /\ mantraProfile # Null => QualityAccepted(mantraProfile)
    /\ \A i \in 1..Len(savedUsers) :
          /\ QualityAccepted(savedUsers[i].mantraProfile)
          /\ QualityAccepted(savedUsers[i].answerProfile)

(***************************************************************************)
(* C19.  With every position's mean held fixed, raising the MAD of any     *)
(* position never raises the feature's quality score.                      *)
(***************************************************************************)
C19_QualityMonotone ==
    fnPc = "assessed" => fnOut.noisier <= fnOut.base

RaisedAt(i) ==
    /\ RLt(fnStats.mad[i], fnNoisier.mad[i])
    /\ \A j \in 1..Len(fnStats.mean) :
          /\ fnNoisier.mean[j] = fnStats.mean[j]
          /\ j # i => fnNoisier.mad[j] = fnStats.mad[j]

C19_Witness ==
    /\ fnPc = "assessed"
    /\ \E i \in 1..Len(fnStats.mean) : RaisedAt(i) /\ fnStats.mean[i].n > 0
    /\ \E j \in 1..Len(fnStats.mean) : fnStats.mean[j].n <= 0
    /\ 0 < fnOut.noisier /\ fnOut.noisier < fnOut.base

(***************************************************************************)
(* C20.  A feature's score is the average, over the positions below the    *)
(* shortest of attempt, profile mean and profile MAD, of                   *)
(* min(|attempt - mean| / max(mad, 40), 3); positions beyond the shortest  *)
(* series are ignored, and a profile MAD of 0 divides by 40, never by 0.   *)
(***************************************************************************)
SharedLength == MinInt(Len(fnAttempt), MinInt(Len(fnStats.mean), Len(fnStats.mad)))

Deviation(i) ==
    LET floorMad == IF RLt(fnStats.mad[i], RI(40)) THEN RI(40) ELSE fnStats.mad[i]
        ratio    == RDiv(RAbs(RSub(RI(fnAttempt[i]), fnStats.mean[i])), floorMad)
    IN  IF RLt(RI(3), ratio) THEN RI(3) ELSE ratio

\* Rationals are kept in lowest terms, so equal numbers are equal records.
SameNumber(a, b) == isFinite(a) /\ isFinite(b) /\ a = b

C20_AverageOfCappedDeviations ==
    (fnPc = "scored" /\ SharedLength > 0) =>
        SameNumber(RMul(fnOut, RI(SharedLength)),
                   RSum([i \in 1..SharedLength |-> Deviation(i)]))

C20_Witness ==
    /\ fnPc = "scored"
    /\ SharedLength = 2
    /\ Len(fnAttempt) # Len(fnStats.mean) \/ Len(fnStats.mean) # Len(fnStats.mad)
    /\ \E i \in 1..SharedLength :
           fnStats.mad[i].n = 0 /\ fnAttempt[i] # fnStats.mean[i].n
    /\ \E i \in 1..SharedLength : SameNumber(Deviation(i), RI(3))
    /\ \E i \in 1..SharedLength : RLt(RI(0), Deviation(i)) /\ RLt(Deviation(i), RI(3))

(***************************************************************************)
(* C21.  For an attempt classified as human, the distance of the match     *)
(* result is dwellScore * 0.30 + flightScore * 0.50 + ddScore * 0.20 over  *)
(* the scores the same result reports, and the weights it reports are      *)
(* 0.30, 0.50 and 0.20.                                                    *)
(***************************************************************************)
WeightedScores(match) ==
    RDiv(RAdd(RAdd(RMul(RI(30), match.dwellScore), RMul(RI(50), match.flightScore)),
              RMul(RI(20), match.ddScore)),
         RI(100))

CombinesScores(match) ==
    /\ SameNumber(match.distance, WeightedScores(match))
    /\ SameNumber(match.weights.dwell, Rat(3, 10))
    /\ SameNumber(match.weights.flight, Rat(1, 2))
    /\ SameNumber(match.weights.dd, Rat(1, 5))

C21_WeightedDistance ==
    /\ (mantraMatch # Null /\ detectLiveness(mantraTimings).isHuman)
          => CombinesScores(mantraMatch)
    /\ (ChallengeDone /\ detectLiveness(result.answerTimings).isHuman)
          => CombinesScores(result.answerMatch)

C21_Witness ==
    /\ mantraMatch # Null
    /\ detectLiveness(mantraTimings).isHuman
    /\ RLt(RI(0), mantraMatch.dwellScore)
    /\ RLt(mantraMatch.dwellScore, mantraMatch.flightScore)
    /\ RLt(RI(0), mantraMatch.ddScore)
    /\ ~SameNumber(mantraMatch.ddScore, mantraMatch.flightScore)

(***************************************************************************)
(* C22.  calculateMatch runs the Liveness Detector on the attempt; for an  *)
(* attempt classified as not human the distance is the weighted sum of the *)
(* scores plus (1 - livenessScore) * 1.5, so it is never below the         *)
(* distance the same timings get when classified human.                    *)
(***************************************************************************)
PenalisedDistance(match, timings) ==
    LET live == detectLiveness(timings)
    IN  IF live.isHuman THEN WeightedScores(match)
        ELSE RAdd(WeightedScores(match), RMul(RSub(RI(1), live.score), Rat(3, 2)))

C22_BotPenalty ==
    /\ mantraMatch # Null
          => SameNumber(mantraMatch.distance, PenalisedDistance(mantraMatch, mantraTimings))
    /\ ChallengeDone
          => SameNumber(result.answerMatch.distance,
                        PenalisedDistance(result.answerMatch, result.answerTimings))

(***************************************************************************)
(* C23.  Every match result carries a liveness verdict with a score in     *)
(* [0, 1] and isHuman exactly when the score is at least 0.5; for an       *)
(* attempt whose dwell times are all the same (zero variance) the verdict  *)
(* is not human, with flags LOW_DWELL_VARIANCE and SUSPICIOUS_DWELL_CV and *)
(* a score of at most 0.3.                                                 *)
(***************************************************************************)
ZeroVarianceDwell(timings) ==
    /\ Len(timings.dwellTimes) >= 3
    /\ \A i \in 1..Len(timings.dwellTimes) : timings.dwellTimes[i] = timings.dwellTimes[1]

LivenessReported(match, timings) ==
    /\ "liveness" \in DOMAIN match
    /\ RLe(RI(0), match.liveness.score) /\ RLe(match.liveness.score, RI(1))
    /\ match.liveness.isHuman <=> RLe(Rat(1, 2), match.liveness.score)
    /\ ZeroVarianceDwell(timings) =>
          /\ ~match.liveness.isHuman
          /\ {"LOW_DWELL_VARIANCE", "SUSPICIOUS_DWELL_CV"} \subseteq match.liveness.flags
          /\ RLe(match.liveness.score, Rat(3, 10))

C23_LivenessVerdict ==
    /\ mantraMatch # Null => LivenessReported(mantraMatch, mantraTimings)
    /\ ChallengeDone => LivenessReported(result.answerMatch, result.answerTimings)

(***************************************************************************)
(* C24.  The confidence of a match result depends on its distance alone,   *)
(* never grows with the distance, is 100 at distance 0 and lies in         *)
(* [0, 100]: of two results, the one with the larger distance never has    *)
(* the larger confidence.                                                  *)
(***************************************************************************)
ConfidenceInRange(match) ==
    /\ RLe(RI(0), match.confidence) /\ RLe(match.confidence, RI(100))
    /\ SameNumber(match.distance, RI(0)) => SameNumber(match.confidence, RI(100))

C24_ConfidenceMonotone ==
    /\ mtOut # Null => ConfidenceInRange(mtOut)
    /\ (mtOut # Null /\ mtOutOther # Null) =>
          /\ RLe(mtOutOther.distance, mtOut.distance)
                => RLe(mtOut.confidence, mtOutOther.confidence)
          /\ RLe(mtOut.distance, mtOutOther.distance)
                => RLe(mtOutOther.confidence, mtOut.confidence)

C24_Witness ==
    /\ mtOut # Null /\ mtOutOther # Null
    /\ RLt(RI(0), mtOutOther.distance)
    /\ RLt(mtOutOther.distance, mtOut.distance)
    /\ RLt(mtOutOther.confidence, RI(100))
    /\ RLt(Rat(5, 2), mtOut.distance)
    /\ SameNumber(mtOut.confidence, RI(0))

(***************************************************************************)
(* C25.  Whatever the attempt and the profile hold (empty series, NaN or   *)
(* absent entries, infinite values, a MAD of 0), distance, confidence,     *)
(* dwellScore, flightScore and ddScore of the match result are finite      *)
(* numbers, and a feature score that is not finite is replaced by 10       *)
(* before the scores are combined.                                         *)
(***************************************************************************)
Replaced(score, raw) ==
    IF isFinite(raw) THEN SameNumber(score, raw) ELSE SameNumber(score, RI(10))

RawDwell == scaledManhattan(mtTimings.dwellTimes, mtProfile.dwell.mean, mtProfile.dwell.mad)
RawFlight == scaledManhattan(mtTimings.flightTimes, mtProfile.flight.mean, mtProfile.flight.mad)
RawDD == scaledManhattan(mtTimings.ddLatencies, mtProfile.dd.mean, mtProfile.dd.mad)

C25_FiniteFields ==
    mtOut # Null =>
        /\ isFinite(mtOut.distance) /\ isFinite(mtOut.confidence)
        /\ isFinite(mtOut.dwellScore) /\ isFinite(mtOut.flightScore) /\ isFinite(mtOut.ddScore)
        /\ Replaced(mtOut.dwellScore, RawDwell)
        /\ Replaced(mtOut.flightScore, RawFlight)
        /\ Replaced(mtOut.ddScore, RawDD)
        /\ SameNumber(mtOut.distance, WeightedScores(mtOut))

C25_Witness ==
    /\ mtOut # Null
    /\ ~isFinite(RawDwell)
    /\ isFinite(RawFlight) /\ \E i \in 1..Len(mtTimings.flightTimes) : ~isFinite(mtTimings.flightTimes[i])
    /\ SameNumber(mtOut.dwellScore, RI(10))
    /\ RLt(mtOut.distance, RI(10))

(***************************************************************************)
(* C26.  For a fixed profile, moving one timing value of an attempt so     *)
(* that its absolute deviation from the profile mean of its position       *)
(* grows, the other values unchanged, never lowers the feature's score.    *)
(***************************************************************************)
C26_ScoreMonotone ==
    fnPc = "compared" => RLe(fnOut.base, fnOut.moved)

C26_Witness ==
    /\ fnPc = "compared"
    /\ Len(fnAttempt) > 1
    /\ RLt(RI(0), fnOut.base)
    /\ RLt(fnOut.base, fnOut.moved)
    /\ \E i \in 1..Len(fnAttempt) : fnNoisier[i] # fnAttempt[i] /\ fnNoisier[i] < fnStats.mean[i].n

(***************************************************************************)
(* C27.  For a profile with at least one position in each feature, an      *)
(* attempt whose dwell, flight and dd series are the profile's means gets  *)
(* dwellScore = flightScore = ddScore = 0, distance 0 and confidence 100.  *)
(***************************************************************************)
\* The means buildProfile can store: numbers, or NaN for a position without values.
StorableMeans(stats) ==
    /\ Len(stats.mean) >= 1
    /\ \A i \in 1..Len(stats.mean) : isFinite(stats.mean[i]) \/ isNaN(stats.mean[i])

ReconstructedFromMeans ==
    /\ mtOut # Null
    /\ mtTimings = FromMeans(mtProfile)
    /\ StorableMeans(mtProfile.dwell) /\ StorableMeans(mtProfile.flight)
    /\ StorableMeans(mtProfile.dd)

C27_PerfectAttempt ==
    ReconstructedFromMeans =>
        /\ SameNumber(mtOut.dwellScore, RI(0))
        /\ SameNumber(mtOut.flightScore, RI(0))
        /\ SameNumber(mtOut.ddScore, RI(0))
        /\ SameNumber(mtOut.distance, RI(0))
        /\ SameNumber(mtOut.confidence, RI(100))

C27_Witness ==
    /\ ReconstructedFromMeans
    /\ \E i \in 1..Len(mtProfile.dwell.mean) :
           isFinite(mtProfile.dwell.mean[i]) /\ mtProfile.dwell.mean[i].d > 1
    /\ SameNumber(mtOut.distance, RI(0))

(***************************************************************************)
(* C28.  Usernames are unique without regard to case: after any            *)
(* registrations, two sessions that both pass the availability check       *)
(* before either saves and saves that fall back to local storage included, *)
(* no two stored records share a username, and a save the server rejected  *)
(* as a duplicate is not reported to the flow as a success.                *)
(***************************************************************************)
UniqueUsernames(store) ==
    \A i, j \in 1..Len(store) :
        i # j => lower(store[i].username) # lower(store[j].username)

C28_UniqueUsernames ==
    /\ UniqueUsernames(serverDb)
    /\ UniqueUsernames(localUsers)
    /\ \A s \in Sessions : sessions[s].pc = "FINISH" => ~sessions[s].rejected

(***************************************************************************)
(* C29.  A stored profile never changes after registration: no step of the *)
(* login flow (user selection, mantra completion, challenge completion,    *)
(* reset) changes the mantraProfile or answerProfile of a stored user, so  *)
(* the profile handed to calculateMatch is the same before and after.      *)
(***************************************************************************)
ProfilesKept ==
    \A u \in UserIds :
        /\ users'[u].mantraProfile = users[u].mantraProfile
        /\ users'[u].answerProfile = users[u].answerProfile

C29_ProfilesImmutable == [][ProfilesKept]_vars

C29_Witness ==
    /\ stage = RESULT
    /\ result.answerMatch # Null
    /\ users = StoredUsers

(***************************************************************************)
(* C30.  calculateMatch is a pure function of its two arguments: two calls *)
(* with the same timing vector and the same profile return the same        *)
(* result whatever happened in between, and the weights a result carries   *)
(* are not state shared between results.                                   *)
(***************************************************************************)
C30_PureMatch ==
    (mtCalls >= 2 /\ mtTimings = mtOther) => mtOut = mtOutOther

(***************************************************************************)
(* C31.  updateUser upserts: after updateUser(u) has returned true for a   *)
(* user that was stored, getUsers with the server reachable holds exactly  *)
(* one record with u's id, and that record is u.                           *)
(***************************************************************************)
WithId(store, id) == SelectSeq(store, LAMBDA u : u.id = id)

UpdatedStoredUser ==
    /\ apiCall # Null
    /\ apiCall.op = "updateUser"
    /\ apiCall.returned
    /\ apiCall.stored

C31_UpdateUpserts ==
    UpdatedStoredUser => WithId(getUsers(TRUE), apiCall.request.id) = <<apiCall.request>>

(***************************************************************************)
(* C32.  On the server, after any register, PUT, delete and reset          *)
(* requests from an empty database, no two records have the same username  *)
(* without regard to case, and a register request for a taken username is  *)
(* answered with status 400 and leaves the database as it was.             *)
(***************************************************************************)
RegisteredTakenName ==
    /\ apiCall # Null
    /\ apiCall.op = "register"
    /\ apiCall.request.username # <<>>
    /\ nameExists(apiCall.before, apiCall.request.username)

C32_ServerUniqueNames ==
    /\ UniqueUsernames(serverDb)
    /\ RegisteredTakenName => (apiCall.status = 400 /\ serverDb = apiCall.before)

(***************************************************************************)
(* C33.  Read your writes: whenever saveUser(u) has returned true,         *)
(* getUsers with the server reachable returns a list that contains u, and  *)
(* an answer of the server that is not ok (400, 500) is not reported as a  *)
(* success.                                                                *)
(***************************************************************************)
Contains(store, user) == \E i \in 1..Len(store) : store[i] = user

SavedUser ==
    /\ apiCall # Null
    /\ apiCall.op = "saveUser"
    /\ apiCall.returned

C33_ReadYourWrites ==
    SavedUser =>
        /\ Contains(getUsers(TRUE), apiCall.request)
        /\ apiCall.status \notin {400, 500}

(***************************************************************************)
(* C34.  A mounted capture delivers onComplete at most once for a          *)
(* completed typing and never for a typing that was reset: a reset (or a   *)
(* change of the target text) between the last accepted character and the  *)
(* completion timer leaves no delivery of the discarded keystroke list.    *)
(***************************************************************************)
Delivers == delivered' # delivered

C34_NoStaleCompletion == [][Delivers => (completedRef /\ timerPending = 1)]_vars

(***************************************************************************)
(* C35.  In every reachable state of the login flow a user is selected     *)
(* whenever the stage is INPUT_MANTRA, INPUT_CHALLENGE or RESULT, a mantra *)
(* match is stored whenever the stage is INPUT_CHALLENGE, a result is      *)
(* stored whenever the stage is RESULT, and a result always carries the    *)
(* mantra match computed in its own session.                               *)
(***************************************************************************)
SessionMantraMatch ==
    calculateMatch(Numbers(mantraTimings), users[selectedUser].mantraProfile)

NothingLeftOver ==
    stage \in {SELECT_USER, INPUT_MANTRA} =>
        (mantraMatch = Null /\ mantraTimings = Null /\ result = Null)

RegOrder(s) ==
    CASE s = USERNAME -> 0 [] s = MANTRA -> 1 [] s = SECRET_SETUP -> 2
      [] s = ANSWER_CALIBRATION -> 3 [] s = FINISH -> 4

BuiltFromFive(user) ==
    /\ user.mantraProfile.sampleCount = MANTRA_CALIBRATION_COUNT
    /\ QualityAccepted(user.mantraProfile)
    /\ user.answerProfile.sampleCount = ANSWER_CALIBRATION_COUNT

SaveUserCalled == Len(pendingSaves') > Len(pendingSaves)

RegistrationStep ==
    /\ RegOrder(step) <= RegOrder(step')
    /\ SaveUserCalled =>
          /\ Len(mantraAttempts) = MANTRA_CALIBRATION_COUNT
          /\ Len(answerAttempts') = ANSWER_CALIBRATION_COUNT
          /\ BuiltFromFive(pendingSaves'[Len(pendingSaves')])
    /\ (step # FINISH /\ step' = FINISH) => Len(savedUsers') > Len(savedUsers)
    /\ \A i \in 1..Len(savedUsers') : BuiltFromFive(savedUsers'[i])

C37_ForwardRegistration == [][RegistrationStep]_vars

(***************************************************************************)
(* C38.  With 7 or fewer samples at a position removeOutliers removes no   *)
(* value (the largest population z-score of n values is sqrt(n - 1), below *)
(* 2.5), so a profile built from the 5 calibration attempts stores at each *)
(* position the plain arithmetic mean of all the samples, and their true   *)
(* minimum and maximum.                                                    *)
(***************************************************************************)
PlainStats(stats, matrix) ==
    \A c \in 1..Len(stats.mean) :
        LET all == ColumnOf(matrix, c)
        IN  /\ removeOutliers(all) = all
            /\ stats.mean[c] = mean(all)
            /\ stats.min[c] = RI(SeqMin(all))
            /\ stats.max[c] = RI(SeqMax(all))

C38_FewSamplesKeepAll ==
    (/\ Built /\ bpOut # BuildError
     /\ Regular(DwellsOf(ValidOf(bpAttempts)))
     /\ Len(ValidOf(bpAttempts)) <= 7) =>
        /\ PlainStats(bpOut.dwell, DwellsOf(ValidOf(bpAttempts)))
        /\ PlainStats(bpOut.flight, FlightsOf(ValidOf(bpAttempts)))
        /\ PlainStats(bpOut.dd, DDsOf(ValidOf(bpAttempts)))

\* Seven samples, six of them equal: the seventh lies sqrt(6) deviations out.
C38_Witness ==
    /\ bpPc = "built" /\ bpOut # BuildError
    /\ Len(ValidOf(bpAttempts)) = 7
    /\ DwellsOf(ValidOf(bpAttempts)) = [r \in 1..7 |-> IF r < 7 THEN <<98>> ELSE <<105>>]
    /\ bpOut.dwell.mean[1] = RI(99)
    /\ bpOut.dwell.min[1] = RI(98) /\ bpOut.dwell.max[1] = RI(105)

(***************************************************************************)
(* C39.  For every attempt and profile each per-feature score returned by  *)
(* calculateMatch is in [0, 3] or is exactly 10, and the distance is in    *)
(* [0, 10]; an attempt of at most one keystroke (empty flight and dd       *)
(* series) therefore has a distance of at least 7 and is DENIED at the     *)
(* primary stage.                                                          *)
(***************************************************************************)
CappedOrSentinel(score) ==
    \/ score = RI(SentinelScore)
    \/ RLe(RI(0), score) /\ RLe(score, RI(PenaltyCap))
AtMostOneKeystroke(timings) ==
    /\ Len(timings.dwellTimes) <= 1
    /\ Len(timings.flightTimes) = 0
    /\ Len(timings.ddLatencies) = 0

C39_ScoreRanges ==
    mtOut # Null =>
        /\ CappedOrSentinel(mtOut.dwellScore)
        /\ CappedOrSentinel(mtOut.flightScore)
        /\ CappedOrSentinel(mtOut.ddScore)
        /\ RLe(RI(0), mtOut.distance) /\ RLe(mtOut.distance, RI(10))
        /\ AtMostOneKeystroke(mtTimings) =>
              /\ RLe(RI(7), mtOut.distance)
              /\ primaryDecision(mtOut) = "DENIED"

\* One keystroke that matches the profile's first dwell exactly.
C39_Witness ==
    /\ mtOut # Null
    /\ AtMostOneKeystroke(mtTimings) /\ Len(mtTimings.dwellTimes) = 1
    /\ mtOut.dwellScore = RI(0)
    /\ mtOut.distance = RI(7)
    /\ primaryDecision(mtOut) = "DENIED"

(***************************************************************************)
(* C40.  At the primary stage the distance thresholds alone imply the      *)
(* confidence thresholds: every result that is GRANTED directly has a      *)
(* confidence of at least MIN_CONFIDENCE_ACCEPT (55), and every match with *)
(* a confidence below MIN_CONFIDENCE_CHALLENGE (35) is DENIED directly.    *)
(***************************************************************************)
ConfidenceAgrees(match) ==
    /\ primaryDecision(match) = "GRANTED" => RLe(RI(MIN_CONFIDENCE_ACCEPT), match.confidence)
    /\ RLt(match.confidence, RI(MIN_CONFIDENCE_CHALLENGE)) => primaryDecision(match) = "DENIED"

\* The confidence at the two distance thresholds; between and beyond them
\* the conversion does not rise with the distance.
AtThresholds ==
    /\ RLe(RI(MIN_CONFIDENCE_ACCEPT), matchConfidence(THRESHOLD_ACCEPT))
    /\ RLe(RI(MIN_CONFIDENCE_CHALLENGE), matchConfidence(THRESHOLD_REJECT))

C40_ThresholdsAgree ==
    /\ AtThresholds
    /\ mtOut # Null => ConfidenceAgrees(mtOut)
    /\ mtOutOther # Null => ConfidenceAgrees(mtOutOther)

\* An imperfect attempt that is granted, and a denied one of some confidence.
C40_Witness ==
    /\ mtOut # Null /\ mtOutOther # Null
    /\ primaryDecision(mtOut) = "GRANTED" /\ RLt(RI(0), mtOut.distance)
    /\ RLt(mtOutOther.confidence, RI(MIN_CONFIDENCE_CHALLENGE))
    /\ RLt(RI(0), mtOutOther.confidence)
    /\ primaryDecision(mtOutOther) = "DENIED"

=============================================================================
